---- MODULE Spec2Model ----
(***************************************************************************)
(* Model of ccxt-plus: the Task planner (core/task.py), the Factory fetch  *)
(* engine (core/factory.py) and the CSVSaver persister (core/saver.py).    *)
(* Each component has its own specification over the shared variables:    *)
(*   TaskSpec     Task.initialize followed by the hand-over in _execute    *)
(*   FactorySpec  Factory.complete with its online and local worker pools  *)
(*   FactoryFairSpec  the same under fair thread scheduling                *)
(*   SaverSpec    CSVSaver.save and its pipeline of actions                *)
(***************************************************************************)
EXTENDS Integers, Sequences, FiniteSets, TLC

\* ------------------------------------------------------------------ bounds
\* Factory.max_attempts: the retry bound of the engine.
MaxAttempts == 1
\* Config("MAX_ATTEMPT_TIMES") as read by Task.initialize: the number of probes.
MaxAttemptTimes == 2
\* Largest thread budget (thread_count) given to a Task.
MaxThreadCount == 3
\* Largest number of rows handed to CSVSaver.save.
MaxRows == 3
\* Config("CSV_CHUNK_SIZE"): rows per chunk file.
CsvChunkSize == 2
\* Config("ALLOW_MAX_MISSING_TIMESTAMPS"): the ceiling on missing grid points.
AllowMaxMissing == 2
\* Largest number of calls made on one mapper class.
MaxMapperCalls == 4
\* Largest number of entries handed to a mapper call.
MaxEntries == 2
\* The plans (Task.timestamp_list) the engine is run on.
Plans == {<<>>, <<10>>, <<10, 20>>}
\* The pool sizes (online_worker_count, local_worker_count) the engine is run with.
PoolSizes == {<<1, 1>>, <<2, 1>>, <<1, 2>>}
\* The sets of timestamps whose NORMAL page may be empty.
EmptyPages == {{}, {10}}

\* ------------------------------------------------- helpers/utils.py DataFlag
NORMAL == 0
ERROR == 1

VARIABLES
    \* ---- Task (core/task.py)
    task_assigned,         \* FALSE while the three attributes below are still None
    timestamp_list,        \* Task.timestamp_list
    online_worker_count,   \* Task.online_worker_count
    local_worker_count,    \* Task.local_worker_count
    since,                 \* initialize_func: the nonlocal since
    until,                 \* Task.__init__ argument until
    thread_count,          \* Task.__init__ argument thread_count
    local_threads_ratio,   \* Config("LOCAL_THREADS_RATIO")
    has_map_func,          \* callable(map_func)
    probe_attempt_times,   \* initialize_func: attempt_times, the probes left
    task_pc,               \* position inside Task.initialize
    task_error,            \* the exception initialize raised, "" if none
    probe_log,             \* the outcomes of the probes made so far, oldest first
    execute_pc,            \* position inside CCXTExchangeWrapper._execute
    \* ---- CSVSaver (core/saver.py)
    df,                    \* CSVSaver._df: the rows of the table, in table order
    time_is_text,          \* the time column holds formatted strings (after transfer_time)
    actions,               \* CSVSaver.actions: the configured action names
    action_index,          \* save(): number of actions already run
    timeframe,             \* CSVSaver.timeframe: NoTimeframe for None, else [count, unit]
    missing_set,           \* CSVSaver._missing_times is not None
    missing_times,         \* CSVSaver._missing_times when set: ascending timestamps
    missing_basis,         \* the time column _initialize_missing_times computed from
    missing_file,          \* lines (timestamps) written to missingtimes.txt
    files,                 \* the chunk files written by _save_file, in number order
    saver_pc,              \* position inside CSVSaver.save
    saver_error,           \* the exception save raised, "" if none
    \* ---- BaseMapper and its subclass (core/mapper.py)
    validated,             \* cls._validated of the mapper class in use
    mapper_rows,           \* the rows the last validate call was given
    mapper_result,         \* how the last mapper call ended, "none" before any
    mapper_calls,          \* number of mapper calls made on the class so far
    \* ---- Factory (core/factory.py)
    online_queue,          \* Factory._online_queue: FIFO of units and sentinels
    local_queue,           \* Factory._local_queue: FIFO of fetch results and sentinels
    online_unfinished,     \* _online_queue.unfinished_tasks
    local_unfinished,      \* _local_queue.unfinished_tasks
    stop_event,            \* Factory._stop_event
    abnormal_termination_info, \* Factory._abnormal_termination_info
    cached_raw_data,       \* Factory._cached_raw_data
    online_threads,        \* per online worker: position in _online_worker and held item
    local_threads,         \* per local worker: position in _local_worker and held item
    complete_pc,           \* position of the caller inside Factory.complete
    sentinels_put,         \* loop counter of _stop_threads' put loop
    \* ---- the fetch collaborator (fetch_data_callback)
    fetch_errors,          \* per timestamp: ERROR results before the first NORMAL
    always_error,          \* the timestamps whose fetch returns ERROR on every call
    fetch_page,            \* per timestamp: the rows a NORMAL fetch returns
    fetch_calls,           \* per timestamp: number of invocations so far
    exceeded_dequeued      \* some online worker dequeued a unit with attempt count > bound

factoryVars == <<online_queue, local_queue, online_unfinished, local_unfinished,
                 stop_event, abnormal_termination_info, cached_raw_data,
                 online_threads, local_threads, complete_pc, sentinels_put,
                 fetch_errors, always_error, fetch_page, fetch_calls, exceeded_dequeued>>
taskVars == <<task_assigned, timestamp_list, online_worker_count, local_worker_count>>
plannerVars == <<since, until, thread_count, local_threads_ratio, has_map_func,
                 probe_attempt_times, task_pc, task_error, probe_log, execute_pc>>
saverVars == <<df, time_is_text, actions, action_index, timeframe, missing_set,
               missing_times, missing_basis, missing_file, files, saver_pc, saver_error>>
mapperVars == <<validated, mapper_rows, mapper_result, mapper_calls>>
nonFactoryVars == <<taskVars, plannerVars, saverVars, mapperVars>>
vars == <<nonFactoryVars, factoryVars>>

\* ------------------------------------------------------------ fetch collaborator
\* The timestamps the engine can be seeded with.
Timestamps == UNION {{p[i] : i \in DOMAIN p} : p \in Plans}

\* fetch_data_callback(since=ts): the flag of the next call for ts.
FetchFlag(ts) ==
    IF ts \in always_error \/ fetch_calls[ts] < fetch_errors[ts]
    THEN ERROR ELSE NORMAL

\* fetch_data_callback(since=ts): the rows of the next call (absent on ERROR).
FetchData(ts) == IF FetchFlag(ts) = NORMAL THEN fetch_page[ts] ELSE <<>>

\* ------------------------------------------------------------------ queue items
Sentinel == [kind |-> "None"]
\* The mutation that forgets a unit's attempt count.
UnitCountReset(ts, attempt_times) == [kind |-> "unit", ts |-> ts, attempt_times |-> 0]

\* (ts, attempt_times) on the online queue.
Unit(ts, attempt_times) == [kind |-> "unit", ts |-> ts, attempt_times |-> attempt_times]
FetchResult(ts, data, flag, attempt_times) ==
    [kind |-> "result", ts |-> ts, data |-> data, flag |-> flag,
     attempt_times |-> attempt_times]
NoItem == [kind |-> "empty"]

OnlineIds == 1..2
LocalIds == 1..2

\* Factory.__init__: no termination cause recorded.
NoInfo == <<>>

\* The message of _online_worker: "Exceeded max attempts (attempt_times - 1) for timestamp (ts)."
AbnormalMessage(ts, attempt_times) == <<attempt_times - 1, ts>>

\* The retry-bound test taken one attempt early.
ExceedsAtBound(attempt_times) == attempt_times >= MaxAttempts

\* _online_worker: the retry-bound test on a dequeued unit.
ExceedsMaxAttempts(attempt_times) == attempt_times > MaxAttempts

\* ts is one of the planned page starts.
Planned(ts) == \E i \in DOMAIN timestamp_list : timestamp_list[i] = ts

\* CSVSaver.__init__: no table, no cached missing times, nothing written.
\* The mapper class as loaded: _validated = False, no call made.
MapperIdle ==
    /\ validated = FALSE
    /\ mapper_rows = <<>>
    /\ mapper_result = "none"
    /\ mapper_calls = 0

SaverIdle ==
    /\ df = <<>>
    /\ time_is_text = FALSE
    /\ actions = <<>>
    /\ action_index = 0
    /\ timeframe = <<>>
    /\ missing_set = FALSE
    /\ missing_times = <<>>
    /\ missing_basis = <<>>
    /\ missing_file = <<>>
    /\ files = <<>>
    /\ saver_pc = "idle"
    /\ saver_error = ""

\* ------------------------------------------------------------------ Init
\* Factory.__init__ with a Task that has been initialized: the plan, the pool
\* sizes and the behaviour of the fetch collaborator are the inputs.
FactoryInit ==
    /\ SaverIdle
    /\ MapperIdle
    /\ task_assigned = TRUE
    /\ since = 0 /\ until = 0 /\ thread_count = 0 /\ local_threads_ratio = 1
    /\ has_map_func = FALSE /\ probe_attempt_times = 0
    /\ task_pc = "returned" /\ task_error = "" /\ probe_log = <<>>
    /\ execute_pc = "complete"
    /\ timestamp_list \in Plans
    /\ \E sizes \in PoolSizes :
          /\ online_worker_count = sizes[1]
          /\ local_worker_count = sizes[2]
    /\ online_queue = <<>>
    /\ local_queue = <<>>
    /\ online_unfinished = 0
    /\ local_unfinished = 0
    /\ stop_event = FALSE
    /\ abnormal_termination_info = NoInfo
    /\ cached_raw_data = <<>>
    /\ online_threads = [w \in OnlineIds |-> [pc |-> "unstarted", item |-> NoItem]]
    /\ local_threads = [w \in LocalIds |-> [pc |-> "unstarted", item |-> NoItem]]
    /\ complete_pc = "initialize_flow_line"
    /\ sentinels_put = 0
    /\ fetch_errors \in [Timestamps -> 0..(MaxAttempts + 1)]
    /\ always_error \in SUBSET Timestamps
    /\ \A ts \in Timestamps : ~Planned(ts) => (fetch_errors[ts] = 0 /\ ts \notin always_error)
    /\ \A ts \in always_error : fetch_errors[ts] = 0
    /\ \E empty \in EmptyPages :
          /\ \A ts \in empty : Planned(ts)
          /\ fetch_page = [ts \in Timestamps |-> IF ts \in empty THEN <<>> ELSE <<ts>>]
    /\ fetch_calls = [ts \in Timestamps |-> 0]
    /\ exceeded_dequeued = FALSE

\* ------------------------------------------------------------ Factory.complete
\* _initialize_flow_line: every planned timestamp enters the online queue as (ts, 0).
InitializeFlowLine ==
    /\ complete_pc = "initialize_flow_line"
    /\ online_queue' = online_queue \o [i \in DOMAIN timestamp_list |-> Unit(timestamp_list[i], 0)]
    /\ online_unfinished' = online_unfinished + Len(timestamp_list)
    /\ complete_pc' = "start_workers"
    /\ UNCHANGED <<local_queue, local_unfinished, stop_event, abnormal_termination_info,
                   cached_raw_data, online_threads, local_threads, sentinels_put,
                   fetch_errors, always_error, fetch_page, fetch_calls, exceeded_dequeued, nonFactoryVars>>

\* _start_workers / _start_threads: online_worker_count online and
\* local_worker_count local threads start at the top of their loops.
StartWorkers ==
    /\ complete_pc = "start_workers"
    /\ online_threads' = [w \in OnlineIds |->
          IF w <= online_worker_count THEN [pc |-> "loop", item |-> NoItem]
          ELSE online_threads[w]]
    /\ local_threads' = [w \in LocalIds |->
          IF w <= local_worker_count THEN [pc |-> "loop", item |-> NoItem]
          ELSE local_threads[w]]
    /\ complete_pc' = "join_online_queue"
    /\ UNCHANGED <<online_queue, local_queue, online_unfinished, local_unfinished,
                   stop_event, abnormal_termination_info, cached_raw_data, sentinels_put,
                   fetch_errors, always_error, fetch_page, fetch_calls, exceeded_dequeued, nonFactoryVars>>

\* queue.Queue.join: returns once the queue's unfinished_tasks is seen at zero.
JoinReturns(unfinished) == unfinished = 0

\* self._online_queue.join()
JoinOnlineQueue ==
    /\ complete_pc = "join_online_queue"
    /\ JoinReturns(online_unfinished)
    /\ complete_pc' = "join_local_queue"
    /\ UNCHANGED <<online_queue, local_queue, online_unfinished, local_unfinished,
                   stop_event, abnormal_termination_info, cached_raw_data,
                   online_threads, local_threads, sentinels_put,
                   fetch_errors, always_error, fetch_page, fetch_calls, exceeded_dequeued, nonFactoryVars>>

\* self._local_queue.join()
JoinLocalQueue ==
    /\ complete_pc = "join_local_queue"
    /\ JoinReturns(local_unfinished)
    /\ complete_pc' = "stop_local_put"
    /\ UNCHANGED <<online_queue, local_queue, online_unfinished, local_unfinished,
                   stop_event, abnormal_termination_info, cached_raw_data,
                   online_threads, local_threads, sentinels_put,
                   fetch_errors, always_error, fetch_page, fetch_calls, exceeded_dequeued, nonFactoryVars>>

\* A pool of count threads gets one sentinel short.
SentinelsShort(count) == count - 1

\* _stop_threads: for _ in range(len(threads)): queue.put(None)
SentinelsFor(count) == count

\* _stop_threads(self.local_threads, self._local_queue): one queue.put(None) per thread.
StopLocalPut ==
    /\ complete_pc = "stop_local_put"
    /\ IF sentinels_put < SentinelsFor(local_worker_count)
       THEN /\ local_queue' = Append(local_queue, Sentinel)
            /\ local_unfinished' = local_unfinished + 1
            /\ sentinels_put' = sentinels_put + 1
            /\ UNCHANGED complete_pc
       ELSE /\ complete_pc' = "stop_local_join"
            /\ sentinels_put' = 0
            /\ UNCHANGED <<local_queue, local_unfinished>>
    /\ UNCHANGED <<online_queue, online_unfinished, stop_event, abnormal_termination_info,
                   cached_raw_data, online_threads, local_threads,
                   fetch_errors, always_error, fetch_page, fetch_calls, exceeded_dequeued, nonFactoryVars>>

\* The mutation of the thread joins that waits for no thread.
JoinsNothing(threads, count) == TRUE

\* threading.Thread.join on every thread of a pool: all of them have ended.
AllEnded(threads, count) == \A w \in 1..count : threads[w].pc = "ended"

\* _stop_threads(self.local_threads, ...): t.join() for every local thread.
StopLocalJoin ==
    /\ complete_pc = "stop_local_join"
    /\ AllEnded(local_threads, local_worker_count)
    /\ complete_pc' = "stop_online_put"
    /\ UNCHANGED <<online_queue, local_queue, online_unfinished, local_unfinished,
                   stop_event, abnormal_termination_info, cached_raw_data,
                   online_threads, local_threads, sentinels_put,
                   fetch_errors, always_error, fetch_page, fetch_calls, exceeded_dequeued, nonFactoryVars>>

\* _stop_threads(self.online_threads, self._online_queue): one queue.put(None) per thread.
StopOnlinePut ==
    /\ complete_pc = "stop_online_put"
    /\ IF sentinels_put < SentinelsFor(online_worker_count)
       THEN /\ online_queue' = Append(online_queue, Sentinel)
            /\ online_unfinished' = online_unfinished + 1
            /\ sentinels_put' = sentinels_put + 1
            /\ UNCHANGED complete_pc
       ELSE /\ complete_pc' = "stop_online_join"
            /\ sentinels_put' = 0
            /\ UNCHANGED <<online_queue, online_unfinished>>
    /\ UNCHANGED <<local_queue, local_unfinished, stop_event, abnormal_termination_info,
                   cached_raw_data, online_threads, local_threads,
                   fetch_errors, always_error, fetch_page, fetch_calls, exceeded_dequeued, nonFactoryVars>>

\* _stop_threads(self.online_threads, ...): t.join() for every online thread.
StopOnlineJoin ==
    /\ complete_pc = "stop_online_join"
    /\ AllEnded(online_threads, online_worker_count)
    /\ complete_pc' = "check_info"
    /\ UNCHANGED <<online_queue, local_queue, online_unfinished, local_unfinished,
                   stop_event, abnormal_termination_info, cached_raw_data,
                   online_threads, local_threads, sentinels_put,
                   fetch_errors, always_error, fetch_page, fetch_calls, exceeded_dequeued, nonFactoryVars>>

\* complete's last statement: the outcome for a given termination slot.
CompleteOutcome(info) == IF info # NoInfo THEN "raised" ELSE "returned"

\* if self._abnormal_termination_info: raise RuntimeError(...); return self._cached_raw_data
CheckInfo ==
    /\ complete_pc = "check_info"
    /\ complete_pc' = CompleteOutcome(abnormal_termination_info)
    /\ UNCHANGED <<online_queue, local_queue, online_unfinished, local_unfinished,
                   stop_event, abnormal_termination_info, cached_raw_data,
                   online_threads, local_threads, sentinels_put,
                   fetch_errors, always_error, fetch_page, fetch_calls, exceeded_dequeued, nonFactoryVars>>

\* ------------------------------------------------------ Factory._online_worker
\* The mutation of the loop test that does not consult the stop event.
LoopIgnoresStop(stop) == TRUE

\* while not self._stop_event.is_set(): the loop test of a worker.
LoopContinues(stop) == ~stop

\* The loop test of online worker w: on to the blocking get, or out of the loop.
OnlineLoop(w) ==
    /\ online_threads[w].pc = "loop"
    /\ online_threads' = [online_threads EXCEPT ![w].pc =
          IF LoopContinues(stop_event) THEN "get" ELSE "ended"]
    /\ UNCHANGED <<online_queue, local_queue, online_unfinished, local_unfinished,
                   stop_event, abnormal_termination_info, cached_raw_data,
                   local_threads, complete_pc, sentinels_put,
                   fetch_errors, always_error, fetch_page, fetch_calls, exceeded_dequeued, nonFactoryVars>>

\* item = self._online_queue.get(): blocks while the queue is empty.
\* if item is None: self._online_queue.task_done(); break
OnlineGet(w) ==
    /\ online_threads[w].pc = "get"
    /\ online_queue # <<>>
    /\ online_queue' = Tail(online_queue)
    /\ IF Head(online_queue) = Sentinel
       THEN /\ online_unfinished' = online_unfinished - 1
            /\ online_threads' = [online_threads EXCEPT ![w] = [pc |-> "ended", item |-> NoItem]]
            /\ UNCHANGED exceeded_dequeued
       ELSE /\ online_threads' = [online_threads EXCEPT ![w] =
                  [pc |-> "process", item |-> Head(online_queue)]]
            /\ exceeded_dequeued' =
                  (exceeded_dequeued \/ Head(online_queue).attempt_times > MaxAttempts)
            /\ UNCHANGED online_unfinished
    /\ UNCHANGED <<local_queue, local_unfinished,
                   stop_event, abnormal_termination_info, cached_raw_data,
                   local_threads, complete_pc, sentinels_put,
                   fetch_errors, always_error, fetch_page, fetch_calls, nonFactoryVars>>

\* The mutation of the slot write in which the last writer wins.
LastWriterWins(info, ts, attempt_times) == AbnormalMessage(ts, attempt_times)

\* The slot after a unit has been found over the bound: written only when it is None.
RecordInfo(info, ts, attempt_times) ==
    IF info = NoInfo THEN AbnormalMessage(ts, attempt_times) ELSE info

\* The mutation of the worker that leaves the loop body after the bound test:
\* a unit found over the bound is acknowledged without a fetch.
OnlineProcessSkipsExceeded(w) ==
    /\ online_threads[w].pc = "process"
    /\ LET item == online_threads[w].item IN
       IF ExceedsMaxAttempts(item.attempt_times)
       THEN /\ stop_event' = TRUE
            /\ abnormal_termination_info' =
                  RecordInfo(abnormal_termination_info, item.ts, item.attempt_times)
            /\ UNCHANGED <<fetch_calls, local_queue, local_unfinished>>
       ELSE /\ UNCHANGED <<stop_event, abnormal_termination_info>>
            /\ fetch_calls' = [fetch_calls EXCEPT ![item.ts] = @ + 1]
            /\ local_queue' = Append(local_queue,
                  FetchResult(item.ts, FetchData(item.ts), FetchFlag(item.ts),
                              item.attempt_times + 1))
            /\ local_unfinished' = local_unfinished + 1
    /\ online_threads' = [online_threads EXCEPT ![w].pc = "task_done"]
    /\ UNCHANGED <<online_queue, online_unfinished, cached_raw_data,
                   local_threads, complete_pc, sentinels_put,
                   fetch_errors, always_error, fetch_page, exceeded_dequeued, nonFactoryVars>>

\* if attempt_times > self.max_attempts: with self._lock: set the stop event and,
\* if the slot is None, the message. Then, in every case:
\* data, flag = self.fetch_data_callback(since=ts)
\* self._local_queue.put((ts, data, flag, attempt_times + 1))
OnlineProcess(w) ==
    /\ online_threads[w].pc = "process"
    /\ LET item == online_threads[w].item IN
       /\ IF ExceedsMaxAttempts(item.attempt_times)
          THEN /\ stop_event' = TRUE
               /\ abnormal_termination_info' =
                     RecordInfo(abnormal_termination_info, item.ts, item.attempt_times)
          ELSE UNCHANGED <<stop_event, abnormal_termination_info>>
       /\ fetch_calls' = [fetch_calls EXCEPT ![item.ts] = @ + 1]
       /\ local_queue' = Append(local_queue,
             FetchResult(item.ts, FetchData(item.ts), FetchFlag(item.ts),
                         item.attempt_times + 1))
    /\ local_unfinished' = local_unfinished + 1
    /\ online_threads' = [online_threads EXCEPT ![w].pc = "task_done"]
    /\ UNCHANGED <<online_queue, online_unfinished, cached_raw_data,
                   local_threads, complete_pc, sentinels_put,
                   fetch_errors, always_error, fetch_page, exceeded_dequeued, nonFactoryVars>>

\* self._online_queue.task_done(), then back to the loop test.
OnlineTaskDone(w) ==
    /\ online_threads[w].pc = "task_done"
    /\ online_unfinished' = online_unfinished - 1
    /\ online_threads' = [online_threads EXCEPT ![w] = [pc |-> "loop", item |-> NoItem]]
    /\ UNCHANGED <<online_queue, local_queue, local_unfinished,
                   stop_event, abnormal_termination_info, cached_raw_data,
                   local_threads, complete_pc, sentinels_put,
                   fetch_errors, always_error, fetch_page, fetch_calls, exceeded_dequeued, nonFactoryVars>>

\* ------------------------------------------------------- Factory._local_worker
\* The loop test of local worker w.
LocalLoop(w) ==
    /\ local_threads[w].pc = "loop"
    /\ local_threads' = [local_threads EXCEPT ![w].pc =
          IF LoopContinues(stop_event) THEN "get" ELSE "ended"]
    /\ UNCHANGED <<online_queue, local_queue, online_unfinished, local_unfinished,
                   stop_event, abnormal_termination_info, cached_raw_data,
                   online_threads, complete_pc, sentinels_put,
                   fetch_errors, always_error, fetch_page, fetch_calls, exceeded_dequeued, nonFactoryVars>>

\* item = self._local_queue.get(): blocks while the queue is empty.
\* if item is None: self._local_queue.task_done(); break
LocalGet(w) ==
    /\ local_threads[w].pc = "get"
    /\ local_queue # <<>>
    /\ local_queue' = Tail(local_queue)
    /\ IF Head(local_queue) = Sentinel
       THEN /\ local_unfinished' = local_unfinished - 1
            /\ local_threads' = [local_threads EXCEPT ![w] = [pc |-> "ended", item |-> NoItem]]
       ELSE /\ local_threads' = [local_threads EXCEPT ![w] =
                  [pc |-> "classify", item |-> Head(local_queue)]]
            /\ UNCHANGED local_unfinished
    /\ UNCHANGED <<online_queue, online_unfinished,
                   stop_event, abnormal_termination_info, cached_raw_data,
                   online_threads, complete_pc, sentinels_put,
                   fetch_errors, always_error, fetch_page, fetch_calls, exceeded_dequeued, nonFactoryVars>>

\* The mutation of the flag test that takes every result as NORMAL.
EveryFlagNormal(flag) == TRUE

\* if flag == DataFlag.NORMAL: the branch of _local_worker that keeps the rows.
IsNormal(flag) == flag = NORMAL

\* if flag == NORMAL: extend the cache with non-empty data;
\* else: self._online_queue.put((ts, attempt_times))
LocalClassify(w) ==
    /\ local_threads[w].pc = "classify"
    /\ LET item == local_threads[w].item IN
       IF IsNormal(item.flag)
       THEN /\ cached_raw_data' =
                  IF item.data # <<>> THEN cached_raw_data \o item.data ELSE cached_raw_data
            /\ UNCHANGED <<online_queue, online_unfinished>>
       ELSE /\ online_queue' = Append(online_queue, Unit(item.ts, item.attempt_times))
            /\ online_unfinished' = online_unfinished + 1
            /\ UNCHANGED cached_raw_data
    /\ local_threads' = [local_threads EXCEPT ![w].pc = "task_done"]
    /\ UNCHANGED <<local_queue, local_unfinished,
                   stop_event, abnormal_termination_info,
                   online_threads, complete_pc, sentinels_put,
                   fetch_errors, always_error, fetch_page, fetch_calls, exceeded_dequeued, nonFactoryVars>>

\* self._local_queue.task_done(), then back to the loop test.
LocalTaskDone(w) ==
    /\ local_threads[w].pc = "task_done"
    /\ local_unfinished' = local_unfinished - 1
    /\ local_threads' = [local_threads EXCEPT ![w] = [pc |-> "loop", item |-> NoItem]]
    /\ UNCHANGED <<online_queue, local_queue, online_unfinished,
                   stop_event, abnormal_termination_info, cached_raw_data,
                   online_threads, complete_pc, sentinels_put,
                   fetch_errors, always_error, fetch_page, fetch_calls, exceeded_dequeued, nonFactoryVars>>

\* --------------------------------------------------------- specifications
OnlineWorker(w) ==
    \/ OnlineLoop(w) \/ OnlineGet(w) \/ OnlineProcess(w) \/ OnlineTaskDone(w)

LocalWorker(w) ==
    \/ LocalLoop(w) \/ LocalGet(w) \/ LocalClassify(w) \/ LocalTaskDone(w)

Complete ==
    \/ InitializeFlowLine \/ StartWorkers \/ JoinOnlineQueue \/ JoinLocalQueue
    \/ StopLocalPut \/ StopLocalJoin \/ StopOnlinePut \/ StopOnlineJoin \/ CheckInfo

FactoryNext ==
    \/ Complete
    \/ \E w \in OnlineIds : OnlineWorker(w)
    \/ \E w \in LocalIds : LocalWorker(w)

FactorySpec == FactoryInit /\ [][FactoryNext]_vars

\* Threads are scheduled fairly: the caller and every worker that can take a
\* step eventually takes one.
FactoryFairSpec ==
    /\ FactorySpec
    /\ WF_vars(Complete)
    /\ \A w \in OnlineIds : WF_vars(OnlineWorker(w))
    /\ \A w \in LocalIds : WF_vars(LocalWorker(w))

\* ------------------------------------------------------------ engine claims
\* Every planned unit's fetch returns NORMAL after at most MaxAttempts ERROR results.
AllRecover ==
    \A ts \in Timestamps :
        Planned(ts) => (ts \notin always_error /\ fetch_errors[ts] <= MaxAttempts)

\* The engine under fair scheduling, on the fetch collaborators that recover
\* within the retry bound for every planned unit.
FactoryRecoverInit ==
    /\ FactoryInit
    /\ always_error = {}
    /\ \A ts \in Timestamps : fetch_errors[ts] <= MaxAttempts

FactoryRecoverFairSpec ==
    /\ FactoryRecoverInit
    /\ [][FactoryNext]_vars
    /\ WF_vars(Complete)
    /\ \A w \in OnlineIds : WF_vars(OnlineWorker(w))
    /\ \A w \in LocalIds : WF_vars(LocalWorker(w))

\* Some planned unit's fetch returns ERROR on every call.
SomeAlwaysError == \E ts \in Timestamps : Planned(ts) /\ ts \in always_error

\* complete() has returned or raised.
Terminated == complete_pc \in {"returned", "raised"}

\* Number of rows of the cache that came from the page of ts.
CachedCount(ts) == Cardinality({i \in DOMAIN cached_raw_data : cached_raw_data[i] = ts})

\* C1: when every unit recovers within the retry bound, the rows complete()
\* returns hold the rows of each unit's successful fetch exactly once.
C1_RowsExactlyOnce ==
    (complete_pc = "returned" /\ AllRecover) =>
        /\ \A ts \in Timestamps : Planned(ts) => CachedCount(ts) = Len(fetch_page[ts])
        /\ \A i \in DOMAIN cached_raw_data : Planned(cached_raw_data[i])

\* C2: when every unit recovers within the retry bound, complete() terminates
\* under fair scheduling, with every worker ended and no sentinel left undelivered.
C2_Terminates ==
    AllRecover ~>
        /\ Terminated
        /\ AllEnded(online_threads, online_worker_count)
        /\ AllEnded(local_threads, local_worker_count)
        /\ \A i \in DOMAIN online_queue : online_queue[i] # Sentinel
        /\ \A i \in DOMAIN local_queue : local_queue[i] # Sentinel

C2_Witness == AllRecover /\ complete_pc = "returned" /\ (\E ts \in Timestamps : fetch_calls[ts] > 1)

\* C3: with a unit whose fetch always returns ERROR, complete() never blocks
\* forever: as long as it has not failed with the retry-exhaustion error, some
\* thread can still take a step.
C3_NeverBlocksForever ==
    SomeAlwaysError => (complete_pc = "raised" \/ ENABLED FactoryNext)

\* C4: for a unit whose fetch always returns ERROR, the fetch collaborator has
\* been invoked exactly MaxAttempts + 1 times for it when complete() ends.
C4_ExactlyMaxAttemptsPlusOneFetches ==
    Terminated =>
        \A ts \in Timestamps :
            (Planned(ts) /\ ts \in always_error) => fetch_calls[ts] = MaxAttempts + 1

\* C5: complete() fails exactly when some online worker dequeued a unit whose
\* attempt count exceeded the bound; it never returns with the slot set and
\* never fails when every unit recovers within the bound.
C5_FailsIffExceeded ==
    /\ complete_pc = "raised" => exceeded_dequeued
    /\ complete_pc = "returned" => (~exceeded_dequeued /\ abnormal_termination_info = NoInfo)
    /\ AllRecover => complete_pc # "raised"

C5_Witness == complete_pc = "raised" /\ exceeded_dequeued /\ abnormal_termination_info # NoInfo

\* ====================================================== Task (core/task.py)
\* The first-row times a probe page can start with, and the ends of the range.
ProbePages == {<<4>>, <<4, 4>>, <<4, 6>>, <<6, 4>>, <<4, 5, 7>>}
SinceValues == {3, 4}
UntilValues == {4, 8, 10}
Ratios == {1, 2}

\* What fetch_func(since=test_since) can return: (None, ERROR) from the wrapper's
\* except branch, or (rows, NORMAL) with rows a possibly empty page.
ProbeOutcomes ==
    {[flag |-> ERROR, is_none |-> TRUE, times |-> <<>>]}
    \cup {[flag |-> NORMAL, is_none |-> FALSE, times |-> <<>>]}
    \cup {[flag |-> NORMAL, is_none |-> FALSE, times |-> p] : p \in ProbePages}

\* The raw item the exchange returns for one funding-rate point at time t.
RawFundingItem(t) == [info |-> [fundingTime |-> t, fundingRate |-> 0]]

\* FundingRateHistoryMapper.map: [fundingTime, fundingRate] of every item.
FundingMap(raw) == [i \in DOMAIN raw |-> <<raw[i].info.fundingTime, raw[i].info.fundingRate>>]

\* BaseMapper.map_with_validation raises ValueError when data is not a list.
MapRaises(is_none) == is_none

\* The probe page as initialize_func sees it (test_data): the mapped rows when a
\* map_func is given, else the raw rows; each row starts with its time.
TestData(outcome) ==
    IF has_map_func
    THEN FundingMap([i \in DOMAIN outcome.times |-> RawFundingItem(outcome.times[i])])
    ELSE [i \in DOMAIN outcome.times |-> <<outcome.times[i], 0, 0, 0, 0, 0>>]

\* abs(x)
Abs(x) == IF x < 0 THEN 0 - x ELSE x

\* delta = abs(test_data[0][0] - test_data[-1][0])
Delta(test_data) == Abs(test_data[1][1] - test_data[Len(test_data)][1])

\* range() accepting a zero step as an empty sequence.
RangeAcceptsZero(step) == FALSE

\* range(start, stop, step) raises ValueError for a zero step.
RangeRaises(step) == step = 0

\* list(range(start, stop, step)) including stop.
RangeInclusive(start, stop, step) ==
    IF step <= 0 \/ stop < start THEN <<>>
    ELSE [i \in 1..(((stop - start) \div step) + 1) |-> start + (i - 1) * step]

\* list(range(start, stop, step)) for a step that is not zero (here never negative).
Range(start, stop, step) ==
    IF step <= 0 \/ stop <= start THEN <<>>
    ELSE [i \in 1..(((stop - start + step - 1) \div step)) |-> start + (i - 1) * step]

\* local_worker_count = max(1, thread_count // Config("LOCAL_THREADS_RATIO"))
LocalCount(threads, ratio) ==
    IF threads \div ratio > 1 THEN threads \div ratio ELSE 1

\* The loop runs one probe more than attempt_times allows.
LoopRunsAtZero(left) == left >= 0

\* while attempt_times: the probing loop's test.
LoopRuns(left) == left # 0

\* Factory.__init__, before complete() is called, with no fetch made.
FactoryIdle ==
    /\ online_queue = <<>>
    /\ local_queue = <<>>
    /\ online_unfinished = 0
    /\ local_unfinished = 0
    /\ stop_event = FALSE
    /\ abnormal_termination_info = NoInfo
    /\ cached_raw_data = <<>>
    /\ online_threads = [w \in OnlineIds |-> [pc |-> "unstarted", item |-> NoItem]]
    /\ local_threads = [w \in LocalIds |-> [pc |-> "unstarted", item |-> NoItem]]
    /\ complete_pc = "initialize_flow_line"
    /\ sentinels_put = 0
    /\ fetch_errors = [ts \in Timestamps |-> 0]
    /\ always_error = {}
    /\ fetch_page = [ts \in Timestamps |-> <<>>]
    /\ fetch_calls = [ts \in Timestamps |-> 0]
    /\ exceeded_dequeued = FALSE

\* Task.__init__ and _build_initialize_func: nothing planned yet.
TaskInit ==
    /\ SaverIdle
    /\ MapperIdle
    /\ task_assigned = FALSE
    /\ timestamp_list = <<>>
    /\ online_worker_count = 0
    /\ local_worker_count = 0
    /\ since \in SinceValues
    /\ until \in UntilValues
    /\ thread_count \in 1..MaxThreadCount
    /\ local_threads_ratio \in Ratios
    /\ has_map_func \in BOOLEAN
    /\ probe_attempt_times = MaxAttemptTimes
    /\ task_pc = "probing"
    /\ task_error = ""
    /\ probe_log = <<>>
    /\ execute_pc = "initialize"
    /\ FactoryIdle

\* One iteration of the probing loop of initialize_func, for one outcome of
\* fetch_func(since=test_since).
Probe(outcome) ==
    /\ task_pc = "probing"
    /\ LoopRuns(probe_attempt_times)
    /\ probe_log' = Append(probe_log, outcome)
    /\ IF has_map_func /\ MapRaises(outcome.is_none)
       THEN \* map_func(test_raw_data) raises ValueError("Data has a bad type")
            /\ task_pc' = "raised"
            /\ task_error' = "ValueError"
            /\ UNCHANGED <<taskVars, since, probe_attempt_times>>
       ELSE IF outcome.flag = NORMAL /\ Len(TestData(outcome)) > 0
       THEN LET test_data == TestData(outcome)
                delta == Delta(test_data)
                first == test_data[1][1]
            IN  /\ since' = first
                /\ IF RangeRaises(delta)
                   THEN \* range() arg 3 must not be zero
                        /\ task_pc' = "raised"
                        /\ task_error' = "ValueError"
                        /\ UNCHANGED <<taskVars, probe_attempt_times>>
                   ELSE /\ timestamp_list' = Range(first, until, delta)
                        /\ online_worker_count' = thread_count
                        /\ local_worker_count' = LocalCount(thread_count, local_threads_ratio)
                        /\ task_assigned' = TRUE
                        /\ task_pc' = "returned"
                        /\ UNCHANGED <<task_error, probe_attempt_times>>
       ELSE \* attempt_times -= 1; sleep(1)
            /\ probe_attempt_times' = probe_attempt_times - 1
            /\ UNCHANGED <<taskVars, since, task_pc, task_error>>
    /\ IF has_map_func
       THEN \* map_func is the mapper's map_with_validation
            /\ mapper_calls' = mapper_calls + 1
            /\ IF MapRaises(outcome.is_none)
               THEN /\ mapper_result' = "ValueError"
                    /\ UNCHANGED <<validated, mapper_rows>>
               ELSE /\ mapper_rows' = TestData(outcome)
                    /\ mapper_result' = "returned"
                    /\ validated' = TRUE
       ELSE UNCHANGED mapperVars
    /\ UNCHANGED <<until, thread_count, local_threads_ratio, has_map_func, execute_pc,
                   factoryVars, saverVars>>

\* The loop has ended: raise RuntimeError("Failed to generate task, maximum attempts exhausted")
ProbesExhausted ==
    /\ task_pc = "probing"
    /\ ~LoopRuns(probe_attempt_times)
    /\ task_pc' = "raised"
    /\ task_error' = "RuntimeError"
    /\ UNCHANGED <<taskVars, since, until, thread_count, local_threads_ratio, has_map_func,
                   probe_attempt_times, probe_log, execute_pc, factoryVars, saverVars, mapperVars>>

\* CCXTExchangeWrapper._execute: task.initialize() has returned, so
\* factory.complete(task) is called; or it has raised, and _execute raises too.
ExecuteInitialized ==
    /\ execute_pc = "initialize"
    /\ task_pc \in {"returned", "raised"}
    /\ execute_pc' = IF task_pc = "returned" THEN "complete" ELSE "raised"
    /\ UNCHANGED <<taskVars, since, until, thread_count, local_threads_ratio, has_map_func,
                   probe_attempt_times, task_pc, task_error, probe_log, factoryVars, saverVars, mapperVars>>

TaskNext ==
    \/ \E outcome \in ProbeOutcomes : Probe(outcome)
    \/ ProbesExhausted
    \/ ExecuteInitialized

TaskSpec == TaskInit /\ [][TaskNext]_vars

\* ------------------------------------------------------------ planner claims
\* The outcome of the latest probe.
LastProbe == probe_log[Len(probe_log)]

\* The latest probe returned NORMAL with a non-empty page.
LastProbeUsable ==
    probe_log # <<>> /\ LastProbe.flag = NORMAL /\ Len(LastProbe.times) > 0

\* Time of the first and of the last row of the latest probe's page.
FirstTime == LastProbe.times[1]
LastTime == LastProbe.times[Len(LastProbe.times)]

\* C6: a NORMAL, non-empty probe page with first and last times apart yields the
\* plan first, first + delta, first + 2 * delta, ... below until, with
\* delta = |first - last|; the online pool is the thread budget and the local
\* pool max(1, thread budget div ratio).
C6_PlanFromProbe ==
    /\ (LastProbeUsable /\ FirstTime # LastTime) => task_pc = "returned"
    /\ task_pc = "returned" =>
          /\ LastProbeUsable
          /\ task_assigned
          /\ LET delta == IF FirstTime < LastTime THEN LastTime - FirstTime
                          ELSE FirstTime - LastTime
                 n == Len(timestamp_list)
             IN  /\ \A i \in 1..n : timestamp_list[i] = FirstTime + (i - 1) * delta
                 /\ \A i \in 1..n : timestamp_list[i] < until
                 /\ FirstTime + n * delta >= until
          /\ online_worker_count = thread_count
          /\ local_worker_count >= 1
          /\ local_worker_count * local_threads_ratio <= thread_count
                \/ local_worker_count = 1
          /\ (local_worker_count + 1) * local_threads_ratio > thread_count

C6_Witness ==
    /\ task_pc = "returned"
    /\ Len(timestamp_list) >= 2
    /\ FirstTime > LastTime
    /\ local_worker_count < online_worker_count

\* Every probe made so far returned NORMAL with an empty page.
AllProbesEmpty ==
    \A i \in DOMAIN probe_log : probe_log[i].flag = NORMAL /\ Len(probe_log[i].times) = 0

\* C7: when every probe returns a NORMAL but empty page, initialize() makes
\* exactly MaxAttemptTimes probes and then fails; no plan is returned and the
\* timestamp list and the pool sizes stay unassigned.
C7_EmptyProbesExhaust ==
    AllProbesEmpty =>
        /\ Len(probe_log) <= MaxAttemptTimes
        /\ task_pc \in {"probing", "raised"}
        /\ task_pc = "raised" =>
              /\ Len(probe_log) = MaxAttemptTimes
              /\ task_error = "RuntimeError"
        /\ ~task_assigned
        /\ timestamp_list = <<>> /\ online_worker_count = 0 /\ local_worker_count = 0
        /\ execute_pc # "complete"

C7_Witness ==
    /\ AllProbesEmpty /\ Len(probe_log) = MaxAttemptTimes
    /\ task_pc = "raised" /\ task_error = "RuntimeError" /\ execute_pc = "raised"

\* C8: after a probe that returned the ERROR flag the planner goes on probing,
\* with or without a map_func, unless the attempts are used up, in which case it
\* fails with the attempts-exhausted error.
C8_ErrorProbeRetries ==
    (probe_log # <<>> /\ LastProbe.flag = ERROR) =>
        \/ task_pc = "probing"
        \/ task_pc = "raised" /\ task_error = "RuntimeError" /\ probe_attempt_times = 0

\* C9: a probe page whose first and last rows have the same time makes
\* initialize() fail; nothing is assigned to the task and the engine is not run.
C9_ZeroDeltaFails ==
    (LastProbeUsable /\ FirstTime = LastTime) =>
        /\ task_pc = "raised"
        /\ task_error = "ValueError"
        /\ ~task_assigned
        /\ timestamp_list = <<>> /\ online_worker_count = 0 /\ local_worker_count = 0
        /\ execute_pc # "complete"

C9_Witness ==
    /\ LastProbeUsable /\ FirstTime = LastTime /\ Len(LastProbe.times) = 2
    /\ task_pc = "raised" /\ execute_pc = "raised"

\* ================================================= CSVSaver (core/saver.py)
\* A row is <<time, value>>: columns ["time", "value"], time_column_index 0.
TimeOf(row) == row[1]

\* The time values rows can carry (epoch milliseconds).
TimeValues == {0, 1000, 2000, 2500, 3000, 4500}

\* helpers/utils.py _TIMEFRAME_MAPPING: seconds per unit.
TimeframeMapping(unit) ==
    CASE unit = "s" -> 1
      [] unit = "m" -> 60
      [] unit = "h" -> 3600
      [] unit = "d" -> 86400
      [] unit = "w" -> 604800
      [] unit = "M" -> 2628000

\* helpers/utils.py _UNITS_MAPPING["ms"]
UnitsRateMs == 1000

\* timeframe_to_timestamp(timeframe): _TIMEFRAME_MAPPING[unit] * int(count) * rate
TimeframeToTimestamp(tf) == TimeframeMapping(tf.unit) * tf.count * UnitsRateMs

\* timestamp_to_datetime(timestamp): int(int(timestamp) / rate) seconds since the
\* epoch, formatted as "YYYY-MM-DD HH:MM:SS" in UTC; the text is fixed by the
\* whole seconds, which stand for it here.
TimestampToDatetime(timestamp) == timestamp \div UnitsRateMs

\* timeframe=None
NoTimeframe == [count |-> 0, unit |-> "None"]
Timeframes == {NoTimeframe, [count |-> 1, unit |-> "s"], [count |-> 2, unit |-> "s"]}

\* wrapper.py _ACTIONS_MAPPING
ActionsDefault ==
    <<"drop_duplicates", "sort", "save_missing_times", "fix_integrity", "drop_last",
      "transfer_time">>
ActionsMode1 == <<"drop_duplicates", "sort", "drop_last", "transfer_time">>

\* The action lists a saver is configured with: the two of the wrapper and
\* caller-supplied ones (kwargs "actions").
ActionLists ==
    {ActionsDefault, ActionsMode1,
     <<"save_missing_times">>,
     <<"sort", "fix_integrity">>,
     <<"sort", "save_missing_times", "fix_integrity">>,
     <<"resample", "sort", "save_missing_times", "fix_integrity">>,
     <<"transfer_time", "save_missing_times">>,
     <<"sort", "fix_integrity", "fix_integrity">>,
     <<"sort", "sort">>,
     <<"drop_duplicates", "drop_duplicates">>}

\* The ids collected into CSVSaver._actions by the _id decorator.
KnownActions ==
    {"sort", "drop_duplicates", "drop_last", "transfer_time", "fix_integrity",
     "save_missing_times"}

\* The tables save() can be given: up to MaxRows rows, row i carrying value i.
InputTables ==
    UNION {{[i \in 1..n |-> <<times[i], i>>] : times \in [1..n -> TimeValues]} : n \in 0..MaxRows}

\* The time column of a table, in table order.
TimeColumn(rows) == [i \in DOMAIN rows |-> TimeOf(rows[i])]

\* The set of values of a sequence.
Values(seq) == {seq[i] : i \in DOMAIN seq}

Min(S) == CHOOSE x \in S : \A y \in S : x <= y
Max(S) == CHOOSE x \in S : \A y \in S : x >= y

\* sorted(set): the ascending list of a set of numbers.
RECURSIVE Sorted(_)
Sorted(S) == IF S = {} THEN <<>> ELSE <<Min(S)>> \o Sorted(S \ {Min(S)})

\* df.sort_values(by=time, ascending=True): the tables it can leave. The default
\* kind, quicksort, fixes no order among rows of equal time.
RECURSIVE SortedOrders(_, _)
SortedOrders(rows, left) ==
    IF left = {} THEN {<<>>}
    ELSE LET least == Min({TimeOf(rows[i]) : i \in left})
         IN  UNION {{<<rows[i]>> \o rest : rest \in SortedOrders(rows, left \ {i})} :
                    i \in {j \in left : TimeOf(rows[j]) = least}}

SortValues(rows) == SortedOrders(rows, DOMAIN rows)

\* df.drop_duplicates(subset=[time], keep="first")
RECURSIVE DropDuplicates(_)
DropDuplicates(rows) ==
    IF rows = <<>> THEN <<>>
    ELSE LET init == DropDuplicates(SubSeq(rows, 1, Len(rows) - 1))
             last == rows[Len(rows)]
         IN  IF \E i \in 1..(Len(rows) - 1) : TimeOf(rows[i]) = TimeOf(last)
             THEN init ELSE Append(init, last)

\* df.iloc[:-1]
DropLast(rows) == IF rows = <<>> THEN <<>> ELSE SubSeq(rows, 1, Len(rows) - 1)

\* np.arange(min_time, max_time + delta, delta): min_time, min_time + delta, ...
\* below max_time + delta.
Arange(start, stop, step) ==
    IF stop <= start THEN {}
    ELSE {start + k * step : k \in 0..(((stop - start + step - 1) \div step) - 1)}

\* _initialize_missing_times: set(expected_timestamps) - existing_timestamps
MissingTimestamps(times, step) ==
    Arange(Min(Values(times)), Max(Values(times)) + step, step) \ Values(times)

\* np.searchsorted(arr, key): the bisection for side="left".
RECURSIVE Bisect(_, _, _, _)
Bisect(arr, key, lo, hi) ==
    IF lo >= hi THEN lo
    ELSE LET mid == lo + ((hi - lo) \div 2)
         IN  IF arr[mid + 1] < key THEN Bisect(arr, key, mid + 1, hi)
             ELSE Bisect(arr, key, lo, mid)

\* insert_pos = np.searchsorted(arr, missing_ts), a 0-based position.
SearchSorted(arr, key) == Bisect(arr, key, 0, Len(arr))

\* min(candidates, key=lambda x: x[0]) over [predecessor, successor]: the first
\* of the list is returned unless the second is strictly smaller. The mutation
\* lets the second win on equal distances.
SecondCandidateWinsTies(pred_dist, succ_dist) == pred_dist < succ_dist

FirstCandidateWins(pred_dist, succ_dist) == pred_dist <= succ_dist

\* _fix_data_integrity: the 0-based position of the row cloned for missing_ts:
\* min over [predecessor, successor] by distance, the first of equal ones.
ClosestIdx(arr, missing_ts) ==
    LET insert_pos == SearchSorted(arr, missing_ts)
        has_pred == insert_pos > 0
        has_succ == insert_pos < Len(arr)
        pred_dist == Abs(arr[insert_pos] - missing_ts)
        succ_dist == Abs(arr[insert_pos + 1] - missing_ts)
    IN  IF has_pred /\ (~has_succ \/ FirstCandidateWins(pred_dist, succ_dist))
        THEN insert_pos - 1 ELSE insert_pos

\* closest_data = df.iloc[closest_idx].copy(); closest_data[time] = missing_ts
SynthesizedRow(rows, missing_ts) ==
    [rows[ClosestIdx(TimeColumn(rows), missing_ts) + 1] EXCEPT ![1] = missing_ts]

\* The mutation of _fix_data_integrity that synthesizes a row for the first
\* missing timestamp only.
NewDataFirstOnly(rows, missing) ==
    IF missing = <<>> THEN <<>> ELSE <<SynthesizedRow(rows, missing[1])>>

\* new_data: one synthesized row per missing timestamp, in their order.
NewData(rows, missing) == [i \in DOMAIN missing |-> SynthesizedRow(rows, missing[i])]

\* The mutation of _save_file that writes the full chunks only.
FullChunksOnly(rows, chunk_size) ==
    [c \in 1..(Len(rows) \div chunk_size) |->
        SubSeq(rows, (c - 1) * chunk_size + 1, c * chunk_size)]

\* _save_file: chunk i holds df.iloc[i*chunk_size : (i+1)*chunk_size].
Chunks(rows, chunk_size) ==
    [c \in 1..((Len(rows) + chunk_size - 1) \div chunk_size) |->
        SubSeq(rows, (c - 1) * chunk_size + 1,
               IF c * chunk_size < Len(rows) THEN c * chunk_size ELSE Len(rows))]

\* if len(missing_timestamps) > Config("ALLOW_MAX_MISSING_TIMESTAMPS"), tested at
\* the configured ceiling and, as the mutation of that test, at ceiling included.
ExceedsCeilingAtEqual(count) == count >= AllowMaxMissing

ExceedsCeiling(count) == count > AllowMaxMissing

\* What _initialize_missing_times does on the table, in the order of its tests.
InitializeMissingTimes ==
    IF missing_set THEN [result |-> "cached", missing |-> missing_times]
    ELSE IF timeframe = NoTimeframe THEN [result |-> "ValueError", missing |-> <<>>]
    ELSE IF df = <<>> THEN [result |-> "empty", missing |-> <<>>]
    ELSE IF time_is_text THEN [result |-> "ValueError", missing |-> <<>>]
    ELSE LET missing == MissingTimestamps(TimeColumn(df), TimeframeToTimestamp(timeframe))
         IN  IF ExceedsCeiling(Cardinality(missing))
             THEN [result |-> "ExceedMaxMissingPointsError", missing |-> <<>>]
             ELSE [result |-> "computed", missing |-> Sorted(missing)]

\* The mutation in which no outcome of _initialize_missing_times is an exception.
MissingNeverRaises(outcome) == FALSE

\* The exceptions _initialize_missing_times raises.
MissingRaises(outcome) == outcome.result \in {"ValueError", "ExceedMaxMissingPointsError"}

\* CSVSaver.__init__ by the wrapper: the action list and the timeframe are the inputs.
SaverInit ==
    /\ df = <<>>
    /\ time_is_text = FALSE
    /\ actions \in ActionLists
    /\ action_index = 0
    /\ timeframe \in Timeframes
    /\ missing_set = FALSE
    /\ missing_times = <<>>
    /\ missing_basis = <<>>
    /\ missing_file = <<>>
    /\ files = <<>>
    /\ saver_pc = "idle"
    /\ saver_error = ""
    /\ task_assigned = TRUE
    /\ timestamp_list = <<>>
    /\ online_worker_count = 1
    /\ local_worker_count = 1
    /\ since = 0 /\ until = 0 /\ thread_count = 1 /\ local_threads_ratio = 1
    /\ has_map_func = FALSE /\ probe_attempt_times = 0
    /\ task_pc = "returned" /\ task_error = "" /\ probe_log = <<>>
    /\ execute_pc = "save"
    /\ MapperIdle
    /\ FactoryIdle

\* save(processed_data): self._append_data(processed_data)
SaveAppend(processed_data) ==
    /\ saver_pc = "idle"
    /\ df' = df \o processed_data
    /\ saver_pc' = "actions"
    /\ UNCHANGED <<time_is_text, actions, action_index, timeframe, missing_set, missing_times,
                   missing_basis, missing_file, files, saver_error,
                   taskVars, plannerVars, factoryVars, mapperVars>>

\* The action save() is about to look up in self._actions.
CurrentAction == actions[action_index + 1]

\* save() is inside its loop over self.actions, at an action named name.
AtAction(name) ==
    /\ saver_pc = "actions"
    /\ action_index < Len(actions)
    /\ CurrentAction = name

\* func = self._actions.get(action) is None: Logger.warning, on to the next action.
ActUnknown ==
    /\ saver_pc = "actions"
    /\ action_index < Len(actions)
    /\ CurrentAction \notin KnownActions
    /\ action_index' = action_index + 1
    /\ UNCHANGED <<df, time_is_text, actions, timeframe, missing_set, missing_times,
                   missing_basis, missing_file, files, saver_pc, saver_error,
                   taskVars, plannerVars, factoryVars, mapperVars>>

\* _sort
ActSort ==
    /\ AtAction("sort")
    /\ df' \in SortValues(df)
    /\ action_index' = action_index + 1
    /\ UNCHANGED <<time_is_text, actions, timeframe, missing_set, missing_times,
                   missing_basis, missing_file, files, saver_pc, saver_error,
                   taskVars, plannerVars, factoryVars, mapperVars>>

\* _drop_duplicates
ActDropDuplicates ==
    /\ AtAction("drop_duplicates")
    /\ df' = DropDuplicates(df)
    /\ action_index' = action_index + 1
    /\ UNCHANGED <<time_is_text, actions, timeframe, missing_set, missing_times,
                   missing_basis, missing_file, files, saver_pc, saver_error,
                   taskVars, plannerVars, factoryVars, mapperVars>>

\* _drop_last
ActDropLast ==
    /\ AtAction("drop_last")
    /\ df' = DropLast(df)
    /\ action_index' = action_index + 1
    /\ UNCHANGED <<time_is_text, actions, timeframe, missing_set, missing_times,
                   missing_basis, missing_file, files, saver_pc, saver_error,
                   taskVars, plannerVars, factoryVars, mapperVars>>

\* _transfer_time: timestamp_to_datetime on every time; int() of a time that is
\* already text raises ValueError.
ActTransferTime ==
    /\ AtAction("transfer_time")
    /\ IF time_is_text /\ df # <<>>
       THEN /\ saver_pc' = "raised"
            /\ saver_error' = "ValueError"
            /\ UNCHANGED <<df, time_is_text, action_index>>
       ELSE /\ df' = [i \in DOMAIN df |-> [df[i] EXCEPT ![1] = TimestampToDatetime(@)]]
            /\ time_is_text' = TRUE
            /\ action_index' = action_index + 1
            /\ UNCHANGED <<saver_pc, saver_error>>
    /\ UNCHANGED <<actions, timeframe, missing_set, missing_times,
                   missing_basis, missing_file, files,
                   taskVars, plannerVars, factoryVars, mapperVars>>

\* _save_missing_times
ActSaveMissingTimes ==
    /\ AtAction("save_missing_times")
    /\ LET outcome == InitializeMissingTimes IN
       IF MissingRaises(outcome)
       THEN /\ saver_pc' = "raised"
            /\ saver_error' = outcome.result
            /\ UNCHANGED <<action_index, missing_set, missing_times, missing_basis,
                           missing_file>>
       ELSE /\ action_index' = action_index + 1
            /\ UNCHANGED <<saver_pc, saver_error>>
            /\ IF outcome.result = "empty"
               THEN UNCHANGED <<missing_set, missing_times, missing_basis, missing_file>>
               ELSE /\ missing_set' = TRUE
                    /\ missing_times' = outcome.missing
                    /\ missing_basis' =
                          IF outcome.result = "computed" THEN TimeColumn(df) ELSE missing_basis
                    /\ missing_file' =
                          IF outcome.missing = <<>> THEN missing_file ELSE outcome.missing
    /\ UNCHANGED <<df, time_is_text, actions, timeframe, files,
                   taskVars, plannerVars, factoryVars, mapperVars>>

\* _fix_data_integrity: append the synthesized rows, then self._sort().
ActFixIntegrity ==
    /\ AtAction("fix_integrity")
    /\ LET outcome == InitializeMissingTimes IN
       IF MissingRaises(outcome)
       THEN /\ saver_pc' = "raised"
            /\ saver_error' = outcome.result
            /\ UNCHANGED <<action_index, missing_set, missing_times, missing_basis, df>>
       ELSE /\ action_index' = action_index + 1
            /\ UNCHANGED <<saver_pc, saver_error>>
            /\ IF outcome.result = "empty"
               THEN UNCHANGED <<missing_set, missing_times, missing_basis, df>>
               ELSE /\ missing_set' = TRUE
                    /\ missing_times' = outcome.missing
                    /\ missing_basis' =
                          IF outcome.result = "computed" THEN TimeColumn(df) ELSE missing_basis
                    /\ IF outcome.missing = <<>>
                       THEN UNCHANGED df
                       ELSE df' \in SortValues(df \o NewData(df, outcome.missing))
    /\ UNCHANGED <<time_is_text, actions, timeframe, missing_file, files,
                   taskVars, plannerVars, factoryVars, mapperVars>>

\* save(): every action has run; _save_file writes the chunk files.
SaveFile ==
    /\ saver_pc = "actions"
    /\ action_index = Len(actions)
    /\ files' = Chunks(df, CsvChunkSize)
    /\ saver_pc' = "done"
    /\ UNCHANGED <<df, time_is_text, actions, action_index, timeframe, missing_set,
                   missing_times, missing_basis, missing_file, saver_error,
                   taskVars, plannerVars, factoryVars, mapperVars>>

SaverNext ==
    \/ \E processed_data \in InputTables : SaveAppend(processed_data)
    \/ ActUnknown
    \/ ActSort
    \/ ActDropDuplicates
    \/ ActDropLast
    \/ ActTransferTime
    \/ ActSaveMissingTimes
    \/ ActFixIntegrity
    \/ SaveFile

SaverSpec == SaverInit /\ [][SaverNext]_vars

\* The grid of the table's own range: min + k*step for k >= 0, up to max.
GridWithin(times, step) ==
    LET lo == Min(Values(times))
        hi == Max(Values(times))
    IN  {lo + k * step : k \in 0..((hi - lo) \div step)}

\* C10: for a non-empty table and a cadence step, the missing-time set that
\* save_missing_times / fix_integrity compute equals the grid
\* { min + k*step : k >= 0, min + k*step <= max } minus the times present, so
\* every reported missing timestamp lies between the table's min and max.
C10_MissingIsGridMinusPresent ==
    missing_set =>
        Values(missing_times) =
            GridWithin(missing_basis, TimeframeToTimestamp(timeframe)) \ Values(missing_basis)

\* save() is at save_missing_times or fix_integrity with a non-empty numeric
\* table, a timeframe and no cached missing times: the grid is computed now.
ComputesMissing ==
    /\ saver_pc = "actions"
    /\ action_index < Len(actions)
    /\ CurrentAction \in {"save_missing_times", "fix_integrity"}
    /\ ~missing_set
    /\ timeframe # NoTimeframe
    /\ df # <<>>
    /\ ~time_is_text

\* The number of missing grid points of the current table.
MissingCount ==
    Cardinality(MissingTimestamps(TimeColumn(df), TimeframeToTimestamp(timeframe)))

StrictlyAscending(rows) ==
    \A i, j \in DOMAIN rows : i < j => TimeOf(rows[i]) < TimeOf(rows[j])

\* The number of rows of a table that carry time t.
RowsAt(rows, t) == Cardinality({i \in DOMAIN rows : TimeOf(rows[i]) = t})

\* C12: once fix_integrity has run to completion in a save() on a table sorted
\* ascending by time, every timestamp min, min+step, ..., max of the grid is in
\* the table in exactly one row, whatever action list holds the fix_integrity.
C12_GridPresentExactlyOnce ==
    [][(/\ AtAction("fix_integrity")
        /\ df # <<>>
        /\ StrictlyAscending(df)
        /\ action_index' = action_index + 1)
       => \A t \in GridWithin(TimeColumn(df'), TimeframeToTimestamp(timeframe)) :
              RowsAt(df', t) = 1]_vars

\* The rows of a table whose time is the nearest below, and the nearest above, m.
PredecessorRows(rows, m) ==
    {rows[i] : i \in {j \in DOMAIN rows :
        /\ TimeOf(rows[j]) < m
        /\ \A k \in DOMAIN rows : TimeOf(rows[k]) < m => TimeOf(rows[k]) <= TimeOf(rows[j])}}
SuccessorRows(rows, m) ==
    {rows[i] : i \in {j \in DOMAIN rows :
        /\ TimeOf(rows[j]) > m
        /\ \A k \in DOMAIN rows : TimeOf(rows[k]) > m => TimeOf(rows[k]) >= TimeOf(rows[j])}}

\* The rows a missing time m may be cloned from: the predecessor when it is at
\* most as far from m as the successor (or there is no successor), else the
\* successor.
NearestRows(rows, m) ==
    LET preds == PredecessorRows(rows, m)
        succs == SuccessorRows(rows, m)
    IN  IF preds = {} THEN succs
        ELSE IF succs = {} THEN preds
        ELSE IF \A p \in preds, q \in succs : m - TimeOf(p) <= TimeOf(q) - m
             THEN preds ELSE succs

\* C13: for every missing timestamp m, the row fix_integrity synthesizes is a
\* copy of the row nearest to m among m's immediate predecessor and successor
\* in the ascending table, with only the time replaced by m; at equal distances
\* the predecessor's row is copied.
C13_ClonesNearestPredecessorOnTie ==
    [][(/\ AtAction("fix_integrity")
        /\ df # <<>>
        /\ StrictlyAscending(df)
        /\ action_index' = action_index + 1)
       => \A m \in Values(missing_times') \ Values(TimeColumn(df)) :
              {df'[i] : i \in {j \in DOMAIN df' : TimeOf(df'[j]) = m}}
                  = {[r EXCEPT ![1] = m] : r \in NearestRows(df, m)}]_vars

\* fix_integrity has just filled a missing time that lay exactly half-way
\* between its two neighbours.
C13_Witness ==
    /\ saver_pc = "actions"
    /\ action_index >= 1
    /\ actions[action_index] = "fix_integrity"
    /\ \E m \in Values(missing_times) \ Values(missing_basis) :
          LET below == {t \in Values(missing_basis) : t < m}
              above == {t \in Values(missing_basis) : t > m}
          IN  /\ below # {}
              /\ above # {}
              /\ m - Max(below) = Min(above) - m
              /\ RowsAt(df, m) = 1

\* The rows of a list of files, in file order.
RECURSIVE Concatenated(_)
Concatenated(chunks) ==
    IF chunks = <<>> THEN <<>>
    ELSE Concatenated(SubSeq(chunks, 1, Len(chunks) - 1)) \o chunks[Len(chunks)]

\* C14: for a final table of N rows and chunk size C, save() writes ceil(N/C)
\* files 0, 1, 2, ...; file i holds rows i*C .. min((i+1)*C, N)-1 in table
\* order, every file but possibly the last has C rows, and the files put
\* together in number order are the table.
C14_ChunksPartitionTable ==
    saver_pc = "done" =>
        /\ Len(files) * CsvChunkSize >= Len(df)
        /\ (Len(files) - 1) * CsvChunkSize < Len(df)
        /\ \A i \in 0..(Len(files) - 1) :
              /\ Len(files[i + 1]) =
                    (IF (i + 1) * CsvChunkSize <= Len(df)
                     THEN CsvChunkSize ELSE Len(df) - i * CsvChunkSize)
              /\ \A k \in 1..Len(files[i + 1]) :
                    files[i + 1][k] = df[i * CsvChunkSize + k]
        /\ \A i \in 1..(Len(files) - 1) : Len(files[i]) = CsvChunkSize
        /\ Concatenated(files) = df

\* A save() that wrote more than one file, the last one short.
C14_Witness ==
    /\ saver_pc = "done"
    /\ Len(files) >= 2
    /\ Len(files[Len(files)]) < CsvChunkSize

\* The table read front to back, a row kept when its time was not seen before.
RECURSIVE KeepFirst(_, _)
KeepFirst(rows, seen) ==
    IF rows = <<>> THEN <<>>
    ELSE IF TimeOf(Head(rows)) \in seen THEN KeepFirst(Tail(rows), seen)
    ELSE <<Head(rows)>> \o KeepFirst(Tail(rows), seen \cup {TimeOf(Head(rows))})

\* save() runs the action named name for the second time in a row.
RepeatsAction(name) ==
    /\ AtAction(name)
    /\ action_index >= 1
    /\ actions[action_index] = name
    /\ action_index' = action_index + 1

\* C15: drop_duplicates keeps, for each time, only the first row carrying it in
\* table order; drop_duplicates applied twice in a row gives the table of one
\* application, and sort applied twice in a row gives the table of one sort.
C15_DropDuplicatesAndSortIdempotent ==
    /\ [][AtAction("drop_duplicates") /\ action_index' = action_index + 1
            => df' = KeepFirst(df, {})]_vars
    /\ [][RepeatsAction("drop_duplicates") => df' = df]_vars
    /\ [][RepeatsAction("sort") => df' = df]_vars

\* ------------------------------------------------------------ core/mapper.py
\* len(OHLCVMapper.columns)
OhlcvColumnCount == 5

\* The widths of the entries an exchange page can hold: short, exact, long.
EntryWidths == {OhlcvColumnCount - 1, OhlcvColumnCount, OhlcvColumnCount + 1}

\* A raw entry of the given width: its time first, then zeros.
RawEntry(time, width) == [k \in 1..width |-> IF k = 1 THEN time ELSE 0]

\* The pages (lists of entries) a mapper call can be given.
RawPages ==
    UNION {{[i \in 1..n |-> RawEntry(1000 * i, widths[i])] : widths \in [1..n -> EntryWidths]} :
           n \in 0..MaxEntries}

\* OHLCVMapper.map: entry[:5] for every entry.
OhlcvMap(data) ==
    [i \in DOMAIN data |->
        SubSeq(data[i], 1,
               IF Len(data[i]) < OhlcvColumnCount THEN Len(data[i]) ELSE OhlcvColumnCount)]

\* validate: some row has len(row) != len(cls.columns).
WidthMismatch(rows, column_count) == \E i \in DOMAIN rows : Len(rows[i]) # column_count

\* validate's guard "if not cls._validated".
ChecksRows(was_validated) == ~was_validated

\* BaseMapper.validate(rows) on a class whose _validated is was_validated.
ValidateOutcome(rows, was_validated, column_count) ==
    IF ChecksRows(was_validated) /\ WidthMismatch(rows, column_count)
    THEN "DataFormatValidationError"
    ELSE "returned"

\* The mapper class alone, as loaded; no task, engine or saver is running.
MapperInit ==
    /\ MapperIdle
    /\ SaverIdle
    /\ FactoryIdle
    /\ task_assigned = FALSE
    /\ timestamp_list = <<>>
    /\ online_worker_count = 0
    /\ local_worker_count = 0
    /\ since = 0 /\ until = 0 /\ thread_count = 1 /\ local_threads_ratio = 1
    /\ has_map_func = FALSE /\ probe_attempt_times = 0
    /\ task_pc = "probing" /\ task_error = "" /\ probe_log = <<>>
    /\ execute_pc = "idle"

\* OHLCVMapper.validate(rows)
Validate(rows) ==
    /\ execute_pc = "idle"
    /\ mapper_calls < MaxMapperCalls
    /\ mapper_calls' = mapper_calls + 1
    /\ mapper_rows' = rows
    /\ mapper_result' = ValidateOutcome(rows, validated, OhlcvColumnCount)
    /\ validated' = (validated \/ mapper_result' = "returned")
    /\ UNCHANGED <<taskVars, plannerVars, saverVars, factoryVars>>

\* OHLCVMapper.map_with_validation(data); is_list is isinstance(data, list).
MapWithValidation(data, is_list) ==
    /\ execute_pc = "idle"
    /\ mapper_calls < MaxMapperCalls
    /\ mapper_calls' = mapper_calls + 1
    /\ IF ~is_list
       THEN /\ mapper_result' = "ValueError"
            /\ UNCHANGED <<validated, mapper_rows>>
       ELSE /\ mapper_rows' = OhlcvMap(data)
            /\ mapper_result' = ValidateOutcome(mapper_rows', validated, OhlcvColumnCount)
            /\ validated' = (validated \/ mapper_result' = "returned")
    /\ UNCHANGED <<taskVars, plannerVars, saverVars, factoryVars>>

MapperNext ==
    \/ \E rows \in RawPages : Validate(rows)
    \/ \E data \in RawPages, is_list \in BOOLEAN : MapWithValidation(data, is_list)

MapperSpec == MapperInit /\ [][MapperNext]_vars

\* C16: every call of validate(rows), and of map_with_validation, in which
\* some row's width differs from the declared column count raises the
\* data-format validation error, whatever validate calls were made before on
\* the same mapper.
C16_MismatchAlwaysRaises ==
    (mapper_result \in {"returned", "DataFormatValidationError"}
        /\ WidthMismatch(mapper_rows, OhlcvColumnCount))
    => mapper_result = "DataFormatValidationError"

\* =================================== CCXTExchangeWrapper._execute (wrapper.py)
\* What the probe fetch of one fetch_all_ohlcv call can return.
ExecuteProbeOutcomes ==
    {[flag |-> ERROR, is_none |-> TRUE, times |-> <<>>],
     [flag |-> NORMAL, is_none |-> FALSE, times |-> <<>>],
     [flag |-> NORMAL, is_none |-> FALSE, times |-> <<10>>],
     [flag |-> NORMAL, is_none |-> FALSE, times |-> <<10, 20>>]}

\* The (threads, LOCAL_THREADS_RATIO) pairs one call is made with.
ExecuteThreads == {<<1, 1>>, <<2, 2>>}

\* The fetch collaborators of one call: every fetch succeeds, the first
\* timestamp fails once, or the second timestamp fails on every call.
ExecuteFetches ==
    {[errors |-> [ts \in Timestamps |-> 0], always |-> {}],
     [errors |-> [ts \in Timestamps |-> IF ts = 10 THEN 1 ELSE 0], always |-> {}],
     [errors |-> [ts \in Timestamps |-> 0], always |-> {20}]}

\* fetch_all_ohlcv up to its call of _execute: a Task without map_func, a
\* CSVSaver with the default actions and the timeframe, a Factory, and
\* OHLCVMapper.map_with_validation as map_func; the mapper class may have
\* validated rows in an earlier call.
ExecuteInit ==
    /\ task_assigned = FALSE
    /\ timestamp_list = <<>>
    /\ online_worker_count = 0
    /\ local_worker_count = 0
    /\ since = 4
    /\ until \in {10, 30}
    /\ \E pair \in ExecuteThreads :
          /\ thread_count = pair[1]
          /\ local_threads_ratio = pair[2]
    /\ has_map_func = FALSE
    /\ probe_attempt_times = MaxAttemptTimes
    /\ task_pc = "probing"
    /\ task_error = ""
    /\ probe_log = <<>>
    /\ execute_pc = "initialize"
    /\ df = <<>>
    /\ time_is_text = FALSE
    /\ actions = ActionsDefault
    /\ action_index = 0
    /\ timeframe = [count |-> 1, unit |-> "s"]
    /\ missing_set = FALSE
    /\ missing_times = <<>>
    /\ missing_basis = <<>>
    /\ missing_file = <<>>
    /\ files = <<>>
    /\ saver_pc = "idle"
    /\ saver_error = ""
    /\ validated \in BOOLEAN
    /\ mapper_rows = <<>>
    /\ mapper_result = "none"
    /\ mapper_calls = 0
    /\ online_queue = <<>>
    /\ local_queue = <<>>
    /\ online_unfinished = 0
    /\ local_unfinished = 0
    /\ stop_event = FALSE
    /\ abnormal_termination_info = NoInfo
    /\ cached_raw_data = <<>>
    /\ online_threads = [w \in OnlineIds |-> [pc |-> "unstarted", item |-> NoItem]]
    /\ local_threads = [w \in LocalIds |-> [pc |-> "unstarted", item |-> NoItem]]
    /\ complete_pc = "initialize_flow_line"
    /\ sentinels_put = 0
    /\ \E fetch \in ExecuteFetches :
          /\ fetch_errors = fetch.errors
          /\ always_error = fetch.always
    /\ fetch_page = [ts \in Timestamps |-> <<ts>>]
    /\ fetch_calls = [ts \in Timestamps |-> 0]
    /\ exceeded_dequeued = FALSE

\* task.initialize(): the probing loop, then on to factory.complete(task) or
\* out of _execute with the exception.
ExecuteInitialize ==
    \/ \E outcome \in ExecuteProbeOutcomes : Probe(outcome)
    \/ ProbesExhausted
    \/ ExecuteInitialized

\* An exception leaves _execute; a swallowed one, the mutation, would carry on.
CarriesOnAfterRaise(normal, stage) == stage

NextStage(normal, stage) == IF normal THEN stage ELSE "raised"

\* raw_data = factory.complete(task): the engine runs until complete returns or raises.
ExecuteComplete ==
    /\ execute_pc = "complete"
    /\ \/ FactoryNext
       \/ /\ complete_pc \in {"returned", "raised"}
          /\ execute_pc' = NextStage(complete_pc = "returned", "map")
          /\ UNCHANGED <<taskVars, since, until, thread_count, local_threads_ratio,
                         has_map_func, probe_attempt_times, task_pc, task_error, probe_log,
                         saverVars, mapperVars, factoryVars>>

\* data = map_func(raw_data): OHLCVMapper.map_with_validation on the cached
\* entries, which the exchange returned with the given width.
ExecuteMap(width) ==
    /\ execute_pc = "map"
    /\ mapper_calls' = mapper_calls + 1
    /\ mapper_rows' = OhlcvMap([i \in DOMAIN cached_raw_data |->
                                    RawEntry(cached_raw_data[i], width)])
    /\ mapper_result' = ValidateOutcome(mapper_rows', validated, OhlcvColumnCount)
    /\ validated' = (validated \/ mapper_result' = "returned")
    /\ execute_pc' = NextStage(mapper_result' = "returned", "save")
    /\ UNCHANGED <<taskVars, since, until, thread_count, local_threads_ratio,
                   has_map_func, probe_attempt_times, task_pc, task_error, probe_log,
                   saverVars, factoryVars>>

\* The mapped rows as the table rows of the saver: the time and the row's number.
ProcessedData(rows) == [i \in DOMAIN rows |-> <<rows[i][1], i>>]

\* saver.save(data), then "Task completed" and return True.
ExecuteSave ==
    /\ execute_pc = "save"
    /\ \/ SaveAppend(ProcessedData(mapper_rows))
       \/ ActUnknown \/ ActSort \/ ActDropDuplicates \/ ActDropLast \/ ActTransferTime
       \/ ActSaveMissingTimes \/ ActFixIntegrity \/ SaveFile
       \/ /\ saver_pc \in {"done", "raised"}
          /\ execute_pc' = NextStage(saver_pc = "done", "returned")
          /\ UNCHANGED <<taskVars, since, until, thread_count, local_threads_ratio,
                         has_map_func, probe_attempt_times, task_pc, task_error, probe_log,
                         saverVars, mapperVars, factoryVars>>

ExecuteNext ==
    \/ ExecuteInitialize
    \/ ExecuteComplete
    \/ \E width \in EntryWidths : ExecuteMap(width)
    \/ ExecuteSave

ExecuteSpec == ExecuteInit /\ [][ExecuteNext]_vars

\* Planning failed, the engine failed with retry exhaustion, or mapping or
\* validation failed.
PipelineFailedBeforeSave ==
    \/ task_pc = "raised"
    \/ complete_pc = "raised"
    \/ mapper_result \in {"ValueError", "DataFormatValidationError"}

\* C17: in the pipeline initialize, complete, map/validate, save: when planning
\* fails, the engine fails with retry exhaustion, or mapping/validation fails,
\* save() is never invoked for the task and no chunk file is written; the rows
\* accumulated so far are not flushed.
C17_FailureWritesNothing ==
    PipelineFailedBeforeSave =>
        /\ saver_pc = "idle"
        /\ df = <<>>
        /\ files = <<>>
        /\ missing_file = <<>>
        /\ execute_pc \notin {"save", "returned"}

\* The engine raised after rows had been accumulated, and _execute has raised.
C17_Witness ==
    /\ execute_pc = "raised"
    /\ complete_pc = "raised"
    /\ cached_raw_data # <<>>
    /\ files = <<>>

\* C18: save(rows) first appends the rows to the table, then runs the
\* configured actions one by one in the listed order, an unknown name being
\* skipped while the rest still run, and writes the chunk files once, after
\* the last action; when an action fails fatally no later action runs and no
\* chunk file is written.
C18_ActionsInOrderThenWrite ==
    /\ [][saver_pc = "idle" =>
            /\ Len(df') >= Len(df)
            /\ SubSeq(df', 1, Len(df)) = df
            /\ action_index' = 0
            /\ saver_pc' = "actions"
            /\ files' = <<>>]_vars
    /\ [][saver_pc = "actions" /\ action_index < Len(actions) =>
            /\ files' = files
            /\ \/ saver_pc' = "actions" /\ action_index' = action_index + 1
               \/ saver_pc' = "raised" /\ action_index' = action_index /\ df' = df]_vars
    /\ [][saver_pc = "actions" /\ action_index < Len(actions)
            /\ actions[action_index + 1] \notin KnownActions =>
            /\ saver_pc' = "actions"
            /\ action_index' = action_index + 1
            /\ df' = df]_vars
    /\ [][saver_pc = "actions" /\ action_index < Len(actions)
            /\ actions[action_index + 1] \in {"save_missing_times", "fix_integrity"}
            /\ ~missing_set /\ timeframe = NoTimeframe =>
            saver_pc' = "raised"]_vars
    /\ [][saver_pc = "actions" /\ action_index < Len(actions)
            /\ actions[action_index + 1] = "drop_last" /\ df # <<>> =>
            Len(df') = Len(df) - 1]_vars
    /\ [][saver_pc = "actions" /\ action_index < Len(actions)
            /\ actions[action_index + 1] = "transfer_time" /\ saver_pc' = "actions" =>
            time_is_text']_vars
    /\ [][saver_pc = "actions" /\ action_index = Len(actions) =>
            saver_pc' = "done" /\ df' = df]_vars
    /\ [][(saver_pc = "done" \/ saver_pc = "raised") => UNCHANGED saverVars]_vars
    /\ [](saver_pc # "done" => files = <<>>)
    /\ [](saver_pc = "done" => action_index = Len(actions))

\* A save() with an unknown action name in its list that ran the rest and
\* wrote its files.
C18_Witness ==
    /\ saver_pc = "done"
    /\ \E i \in DOMAIN actions : actions[i] \notin KnownActions
    /\ missing_set
    /\ files # <<>>

\* complete() is about to push its first shutdown sentinel.
AtFirstSentinel == complete_pc = "stop_local_put" /\ sentinels_put = 0

\* C19: at the moment complete() pushes its first shutdown sentinel neither
\* queue has unacknowledged work: no unit waits in or is being fetched from the
\* online queue, and no fetch result waits in or is being classified from the
\* local queue.
C19_DrainedAtFirstSentinel ==
    AtFirstSentinel =>
        /\ online_unfinished = 0
        /\ local_unfinished = 0
        /\ online_queue = <<>>
        /\ local_queue = <<>>
        /\ \A w \in OnlineIds : online_threads[w].item = NoItem
        /\ \A w \in LocalIds : local_threads[w].item = NoItem

\* C20: when complete() returns or raises, every worker thread that was
\* started has terminated and been joined, and every item ever put on either
\* queue, the shutdown sentinels included, has been acknowledged: each queue's
\* pending-work counter is zero.
C20_AllJoinedAllAcknowledged ==
    complete_pc \in {"returned", "raised"} =>
        /\ AllEnded(online_threads, online_worker_count)
        /\ AllEnded(local_threads, local_worker_count)
        /\ online_unfinished = 0
        /\ local_unfinished = 0

\* The number of shutdown sentinels waiting on a queue.
SentinelsOn(queue) == Len(SelectSeq(queue, LAMBDA item : item = Sentinel))

\* C21: shutdown is ordered: complete() pushes one sentinel per local worker
\* and joins all local threads before it pushes any sentinel to the online
\* queue, pushes one sentinel per online worker before joining the online
\* threads, and pushes no sentinel before both queue joins have returned.
C21_ShutdownOrdered ==
    /\ [][SentinelsOn(local_queue') > SentinelsOn(local_queue) =>
            /\ complete_pc = "stop_local_put"
            /\ sentinels_put < local_worker_count
            /\ sentinels_put' = sentinels_put + 1
            /\ SentinelsOn(online_queue) = 0]_vars
    /\ [][SentinelsOn(online_queue') > SentinelsOn(online_queue) =>
            /\ complete_pc = "stop_online_put"
            /\ sentinels_put < online_worker_count
            /\ sentinels_put' = sentinels_put + 1
            /\ (\A w \in 1..local_worker_count : local_threads[w].pc = "ended")]_vars
    /\ [][complete_pc = "join_online_queue" /\ complete_pc' # complete_pc =>
            complete_pc' = "join_local_queue" /\ online_unfinished = 0]_vars
    /\ [][complete_pc = "join_local_queue" /\ complete_pc' # complete_pc =>
            complete_pc' = "stop_local_put" /\ local_unfinished = 0
                /\ SentinelsOn(local_queue) = 0 /\ SentinelsOn(online_queue) = 0]_vars
    /\ [][complete_pc = "stop_local_put" /\ complete_pc' # complete_pc =>
            complete_pc' = "stop_local_join" /\ sentinels_put = local_worker_count]_vars
    /\ [][complete_pc = "stop_local_join" /\ complete_pc' # complete_pc =>
            complete_pc' = "stop_online_put"
                /\ (\A w \in 1..local_worker_count : local_threads[w].pc = "ended")]_vars
    /\ [][complete_pc = "stop_online_put" /\ complete_pc' # complete_pc =>
            complete_pc' = "stop_online_join" /\ sentinels_put = online_worker_count]_vars
    /\ [][complete_pc = "stop_online_join" /\ complete_pc' # complete_pc =>
            complete_pc' = "check_info"
                /\ (\A w \in 1..online_worker_count : online_threads[w].pc = "ended")]_vars
    /\ [](complete_pc \in {"initialize_flow_line", "start_workers", "join_online_queue",
                           "join_local_queue"} =>
            SentinelsOn(local_queue) = 0 /\ SentinelsOn(online_queue) = 0)

\* All local threads are joined and the last of two online sentinels is pushed.
C21_Witness ==
    /\ complete_pc = "stop_online_put"
    /\ online_worker_count = 2
    /\ sentinels_put = 2
    /\ (\A w \in 1..local_worker_count : local_threads[w].pc = "ended")

\* C22: the abnormal-termination slot is first-writer-wins: once it holds a
\* message its value never changes, however many further units are found over
\* the bound; the stop flag is set no later than the slot and never cleared.
C22_SlotFirstWriterWins ==
    /\ [][abnormal_termination_info # NoInfo =>
            abnormal_termination_info' = abnormal_termination_info]_vars
    /\ [][stop_event => stop_event']_vars
    /\ [](abnormal_termination_info # NoInfo => stop_event)

\* A second unit was found over the bound and its message did not replace the
\* one in the slot.
C22_Witness ==
    /\ abnormal_termination_info # NoInfo
    /\ \E w \in OnlineIds :
          /\ online_threads[w].pc = "task_done"
          /\ online_threads[w].item.attempt_times > MaxAttempts
          /\ AbnormalMessage(online_threads[w].item.ts, online_threads[w].item.attempt_times)
                # abnormal_termination_info

\* The items about timestamp ts that are in flight: waiting on a queue, held by
\* an online worker that has not fetched yet, or held by a local worker that
\* has not classified yet.
InFlight(ts) ==
    Len(SelectSeq(online_queue, LAMBDA item : item # Sentinel /\ item.ts = ts))
    + Len(SelectSeq(local_queue, LAMBDA item : item # Sentinel /\ item.ts = ts))
    + Cardinality({w \in OnlineIds : online_threads[w].pc = "process"
                                      /\ online_threads[w].item.ts = ts})
    + Cardinality({w \in LocalIds : local_threads[w].pc = "classify"
                                     /\ local_threads[w].item.ts = ts})

\* C23: every planned timestamp is seeded on the online queue with attempt
\* count 0; each fetch puts its result on the local queue with the count
\* increased by one and an ERROR result re-enqueues the unit with that count,
\* so a unit on the online queue with count k has been fetched exactly k times
\* and at most one item per timestamp is in flight across the two queues.
C23_CountEqualsFetches ==
    /\ complete_pc = "start_workers" =>
          online_queue = [i \in DOMAIN timestamp_list |->
                            [kind |-> "unit", ts |-> timestamp_list[i], attempt_times |-> 0]]
    /\ \A i \in DOMAIN online_queue :
          online_queue[i] # Sentinel =>
              online_queue[i].attempt_times = fetch_calls[online_queue[i].ts]
    /\ \A i \in DOMAIN local_queue :
          local_queue[i] # Sentinel =>
              local_queue[i].attempt_times = fetch_calls[local_queue[i].ts]
    /\ \A w \in OnlineIds :
          online_threads[w].pc = "process" =>
              online_threads[w].item.attempt_times = fetch_calls[online_threads[w].item.ts]
    /\ \A ts \in Timestamps : InFlight(ts) <= 1

\* A unit waits on the online queue after it was fetched and re-enqueued.
C23_Witness ==
    \E i \in DOMAIN online_queue :
        /\ online_queue[i] # Sentinel
        /\ online_queue[i].attempt_times >= 1
        /\ online_queue[i].attempt_times = fetch_calls[online_queue[i].ts]

\* C24: in the iteration in which an online worker finds the dequeued unit's
\* attempt count over max_attempts and sets the stop flag, it still invokes the
\* fetch for that unit and pushes the result on the local queue before it
\* acknowledges the unit.
C24_FetchesInDetectingIteration ==
    [][\A w \in OnlineIds :
        (/\ online_threads[w].pc = "process"
         /\ online_threads[w].item.attempt_times > MaxAttempts
         /\ online_threads'[w] # online_threads[w])
        => LET item == online_threads[w].item IN
           /\ stop_event'
           /\ fetch_calls'[item.ts] = fetch_calls[item.ts] + 1
           /\ Len(local_queue') = Len(local_queue) + 1
           /\ local_queue'[Len(local_queue')].ts = item.ts
           /\ local_queue'[Len(local_queue')].attempt_times = item.attempt_times + 1
           /\ local_unfinished' = local_unfinished + 1
           /\ online_unfinished' = online_unfinished
           /\ online_threads'[w].pc = "task_done"]_vars

\* A worker has set the stop flag for a unit over the bound, fetched it and has
\* its acknowledgement still to make, the result being last on the local queue.
C24_Witness ==
    \E w \in OnlineIds :
        /\ online_threads[w].pc = "task_done"
        /\ online_threads[w].item.attempt_times > MaxAttempts
        /\ stop_event
        /\ local_queue # <<>>
        /\ local_queue[Len(local_queue)] # Sentinel
        /\ local_queue[Len(local_queue)].ts = online_threads[w].item.ts
        /\ local_queue[Len(local_queue)].attempt_times = online_threads[w].item.attempt_times + 1

\* C25: a worker that observes the stop flag set at the top of its loop
\* dequeues nothing further: it dispatches no new fetch and classifies no new
\* result after that; only a worker that was already at its dequeue when the
\* flag was set can still process one more item.
C25_NoDequeueAfterObservedStop ==
    /\ [][\A w \in OnlineIds :
            /\ (stop_event /\ online_threads[w].pc = "loop"
                    /\ online_threads'[w] # online_threads[w])
               => online_threads'[w].pc = "ended"
            /\ online_threads[w].pc = "ended" => online_threads'[w] = online_threads[w]
            /\ (stop_event /\ online_threads'[w].pc = "process"
                    /\ online_threads[w].pc # "process")
               => online_threads[w].pc = "get"]_vars
    /\ [][\A w \in LocalIds :
            /\ (stop_event /\ local_threads[w].pc = "loop"
                    /\ local_threads'[w] # local_threads[w])
               => local_threads'[w].pc = "ended"
            /\ local_threads[w].pc = "ended" => local_threads'[w] = local_threads[w]
            /\ (stop_event /\ local_threads'[w].pc = "classify"
                    /\ local_threads[w].pc # "classify")
               => local_threads[w].pc = "get"]_vars
    /\ [][(\E w \in OnlineIds : online_threads[w].pc = "ended") /\ fetch_calls' # fetch_calls
            => \E v \in OnlineIds : online_threads[v].pc = "process"
                                     /\ online_threads'[v].pc = "task_done"]_vars

\* An online worker has left on the stop flag, before any sentinel was pushed,
\* while a local worker that was waiting in its dequeue classifies one more result.
C25_Witness ==
    /\ stop_event
    /\ complete_pc = "join_online_queue"
    /\ \E w \in 1..online_worker_count : online_threads[w].pc = "ended"
    /\ \E v \in 1..local_worker_count : local_threads[v].pc = "classify"

\* The number of units (sentinels apart) waiting on the online queue.
UnitsOn(queue) == Len(SelectSeq(queue, LAMBDA item : item # Sentinel))

\* C26: a fetch result flagged NORMAL is never retried: its rows are appended
\* to the accumulator when non-empty, and with empty rows the unit completes
\* with nothing appended; only results flagged ERROR cause a re-enqueue, and an
\* ERROR result never adds rows to the accumulator.
C26_OnlyErrorRetries ==
    /\ [][\A w \in LocalIds :
            (local_threads[w].pc = "classify" /\ local_threads'[w] # local_threads[w])
            => LET item == local_threads[w].item IN
               IF item.flag = NORMAL
               THEN /\ online_queue' = online_queue
                    /\ online_unfinished' = online_unfinished
                    /\ cached_raw_data' = cached_raw_data \o item.data
               ELSE /\ online_queue' =
                          Append(online_queue,
                                 [kind |-> "unit", ts |-> item.ts,
                                  attempt_times |-> item.attempt_times])
                    /\ cached_raw_data' = cached_raw_data]_vars
    /\ [][(complete_pc # "initialize_flow_line" /\ UnitsOn(online_queue') > UnitsOn(online_queue))
            => \E w \in LocalIds :
                  /\ local_threads[w].pc = "classify"
                  /\ local_threads'[w].pc = "task_done"
                  /\ local_threads[w].item.flag = ERROR]_vars
    /\ [][cached_raw_data' # cached_raw_data
            => \E w \in LocalIds :
                  /\ local_threads[w].pc = "classify"
                  /\ local_threads'[w].pc = "task_done"
                  /\ local_threads[w].item.flag = NORMAL
                  /\ local_threads[w].item.data # <<>>]_vars

\* A NORMAL result with no rows has been classified: nothing was appended and
\* the unit is no longer in flight.
C26_Witness ==
    \E w \in LocalIds :
        /\ local_threads[w].pc = "task_done"
        /\ local_threads[w].item.flag = NORMAL
        /\ local_threads[w].item.data = <<>>
        /\ InFlight(local_threads[w].item.ts) = 0
        /\ cached_raw_data = <<>>

\* ------------------------------------------- a CSVSaver used for several saves
\* The action lists of a saver that is given more than one save() call.
ReuseActionLists ==
    {<<"save_missing_times">>, <<"sort", "fix_integrity">>,
     <<"sort", "save_missing_times", "fix_integrity">>}

\* CSVSaver.__init__ with a timeframe and one of these lists.
SaverReuseInit ==
    /\ SaverInit
    /\ actions \in ReuseActionLists
    /\ timeframe = [count |-> 1, unit |-> "s"]

\* save() has returned and is called again on the same saver: _append_data
\* concatenates the new rows to self._df; nothing else of the saver is reset.
SaveAgain(processed_data) ==
    /\ saver_pc = "done"
    /\ Len(df) + Len(processed_data) <= MaxRows
    /\ df' = df \o processed_data
    /\ action_index' = 0
    /\ saver_pc' = "actions"
    /\ UNCHANGED <<time_is_text, actions, timeframe, missing_set, missing_times,
                   missing_basis, missing_file, files, saver_error,
                   taskVars, plannerVars, factoryVars, mapperVars>>

SaverReuseNext ==
    \/ \E processed_data \in InputTables : SaveAppend(processed_data)
    \/ ActSort
    \/ ActSaveMissingTimes
    \/ ActFixIntegrity
    \/ SaveFile
    \/ \E processed_data \in InputTables : SaveAgain(processed_data)

SaverReuseSpec == SaverReuseInit /\ [][SaverReuseNext]_vars

\* C27: missing timestamps are computed at most once within a save() call and
\* the same result is used by save_missing_times and fix_integrity of that
\* call; each save() call on a saver computes them from that call's table,
\* never reusing the result cached by an earlier save() on the same saver.
C27_MissingComputedPerSave ==
    /\ [][(AtAction("fix_integrity") /\ missing_set /\ action_index' = action_index + 1)
            => missing_times' = missing_times]_vars
    /\ [][(/\ saver_pc = "actions"
           /\ action_index < Len(actions)
           /\ actions[action_index + 1] \in {"save_missing_times", "fix_integrity"}
           /\ df # <<>>
           /\ action_index' = action_index + 1)
          => Values(missing_times') =
                MissingTimestamps(TimeColumn(df), TimeframeToTimestamp(timeframe))]_vars

\* ---------------------------------------------------- fix_integrity's frame
\* How many rows of a table equal the given row, field by field.
CountOf(rows, row) == Cardinality({i \in DOMAIN rows : rows[i] = row})

\* The table is ascending by time (equal times allowed).
Ascending(rows) ==
    \A i, j \in DOMAIN rows : i < j => TimeOf(rows[i]) <= TimeOf(rows[j])

\* A step in which fix_integrity runs to its end on a table that meets its
\* documented requirement (sorted by the time column).
FixIntegrityCompletes ==
    /\ AtAction("fix_integrity")
    /\ Ascending(df)
    /\ action_index' = action_index + 1

\* C28: fix_integrity only adds rows: every row present before is present
\* afterwards with all fields unchanged, exactly one row is added per cached
\* missing timestamp (the row count grows by their number), the table is
\* ascending by time when the action ends, and with no missing timestamps or an
\* empty table the table is left unchanged.
C28_FixIntegrityOnlyAdds ==
    [][FixIntegrityCompletes =>
         IF df = <<>> \/ missing_times' = <<>>
         THEN df' = df
         ELSE /\ \A i \in DOMAIN df : CountOf(df', df[i]) >= CountOf(df, df[i])
              /\ Len(df') = Len(df) + Len(missing_times')
              /\ \A t \in TimeValues \cup Values(missing_times') :
                    RowsAt(df', t) =
                        RowsAt(df, t)
                        + Cardinality({k \in DOMAIN missing_times' : missing_times'[k] = t})
              /\ Ascending(df')]_vars

\* fix_integrity has just added rows for two missing timestamps.
C28_Witness ==
    /\ saver_pc = "actions"
    /\ action_index >= 1
    /\ actions[action_index] = "fix_integrity"
    /\ Len(missing_times) = 2
    /\ Len(df) >= 4
    /\ \A k \in DOMAIN missing_times : RowsAt(df, missing_times[k]) >= 1

\* ------------------------------------------------ the table of the DEFAULT list
\* save() with the DEFAULT list has run every action and is about to call
\* _save_file; fix_integrity ran, so the gap count was within the ceiling.
DefaultHandsToSaveFile ==
    /\ actions = ActionsDefault
    /\ saver_pc = "actions"
    /\ action_index = Len(actions)

\* The cadence step in the unit of the time column handed to _save_file
\* (whole seconds once transfer_time has run).
CadenceOfColumn ==
    IF time_is_text THEN TimestampToDatetime(TimeframeToTimestamp(timeframe))
    ELSE TimeframeToTimestamp(timeframe)

\* C29: under the DEFAULT action order with the gap count within the ceiling,
\* the table handed to chunk writing is strictly ascending by time, has no
\* repeated time value and contains every cadence grid point between its own
\* first and last time.
C29_DefaultTableStrictAndComplete ==
    (DefaultHandsToSaveFile /\ df # <<>>) =>
        /\ StrictlyAscending(df)
        /\ GridWithin(TimeColumn(df), CadenceOfColumn) \subseteq Values(TimeColumn(df))

\* ------------------------------------- one call whose pages share a boundary
\* An OHLCV entry [time, open, high, low, close, volume]; the five value fields
\* are stood for by one number.
CandleEntry(time, value) ==
    [k \in 1..(OhlcvColumnCount + 1) |-> IF k = 1 THEN time ELSE value]

\* The page the exchange returns for since=ts: two candles, the second at the
\* time the next page starts with. In the first family a candle reads the same in
\* both pages; in the second the candle that closes a page was still forming
\* when that page was cut, so its fields differ from those in the next page.
InterleavePages ==
    {[ts \in Timestamps |-> <<CandleEntry(100 * ts, 100 * ts),
                              CandleEntry(100 * ts + 1000, 100 * ts + 1000)>>],
     [ts \in Timestamps |-> <<CandleEntry(100 * ts, ts), CandleEntry(100 * ts + 1000, ts)>>]}

\* fetch_all_ohlcv after task.initialize(): the plan is fixed, every fetch
\* returns its page with NORMAL, the saver has the DEFAULT list.
InterleaveInit ==
    /\ task_assigned = TRUE
    /\ timestamp_list = <<10, 20>>
    /\ \E sizes \in PoolSizes :
          /\ online_worker_count = sizes[1]
          /\ local_worker_count = sizes[2]
    /\ since = 10 /\ until = 30 /\ thread_count = 2 /\ local_threads_ratio = 2
    /\ has_map_func = FALSE /\ probe_attempt_times = 0
    /\ task_pc = "returned" /\ task_error = "" /\ probe_log = <<>>
    /\ execute_pc = "complete"
    /\ df = <<>>
    /\ time_is_text = FALSE
    /\ actions = ActionsDefault
    /\ action_index = 0
    /\ timeframe = [count |-> 1, unit |-> "s"]
    /\ missing_set = FALSE
    /\ missing_times = <<>>
    /\ missing_basis = <<>>
    /\ missing_file = <<>>
    /\ files = <<>>
    /\ saver_pc = "idle"
    /\ saver_error = ""
    /\ MapperIdle
    /\ online_queue = <<>>
    /\ local_queue = <<>>
    /\ online_unfinished = 0
    /\ local_unfinished = 0
    /\ stop_event = FALSE
    /\ abnormal_termination_info = NoInfo
    /\ cached_raw_data = <<>>
    /\ online_threads = [w \in OnlineIds |-> [pc |-> "unstarted", item |-> NoItem]]
    /\ local_threads = [w \in LocalIds |-> [pc |-> "unstarted", item |-> NoItem]]
    /\ complete_pc = "initialize_flow_line"
    /\ sentinels_put = 0
    /\ fetch_errors = [ts \in Timestamps |-> 0]
    /\ always_error = {}
    /\ fetch_page \in InterleavePages
    /\ fetch_calls = [ts \in Timestamps |-> 0]
    /\ exceeded_dequeued = FALSE

\* raw_data = factory.complete(task)
InterleaveComplete ==
    /\ execute_pc = "complete"
    /\ \/ FactoryNext
       \/ /\ complete_pc \in {"returned", "raised"}
          /\ execute_pc' = NextStage(complete_pc = "returned", "map")
          /\ UNCHANGED <<taskVars, since, until, thread_count, local_threads_ratio,
                         has_map_func, probe_attempt_times, task_pc, task_error, probe_log,
                         saverVars, mapperVars, factoryVars>>

\* data = map_func(raw_data): OHLCVMapper.map_with_validation on the accumulator.
InterleaveMap ==
    /\ execute_pc = "map"
    /\ mapper_calls' = mapper_calls + 1
    /\ mapper_rows' = OhlcvMap(cached_raw_data)
    /\ mapper_result' = ValidateOutcome(mapper_rows', validated, OhlcvColumnCount)
    /\ validated' = (validated \/ mapper_result' = "returned")
    /\ execute_pc' = NextStage(mapper_result' = "returned", "save")
    /\ UNCHANGED <<taskVars, since, until, thread_count, local_threads_ratio,
                   has_map_func, probe_attempt_times, task_pc, task_error, probe_log,
                   saverVars, factoryVars>>

\* saver.save(data) with the DEFAULT list.
InterleaveSave ==
    /\ execute_pc = "save"
    /\ \/ SaveAppend(mapper_rows)
       \/ ActDropDuplicates \/ ActSort \/ ActSaveMissingTimes \/ ActFixIntegrity
       \/ ActDropLast \/ ActTransferTime \/ SaveFile

InterleaveNext ==
    \/ InterleaveComplete
    \/ InterleaveMap
    \/ InterleaveSave

InterleaveSpec == InterleaveInit /\ [][InterleaveNext]_vars

\* The accumulator when the pages land in the order of the plan.
PlanOrderRows ==
    OhlcvMap(Concatenated([i \in DOMAIN timestamp_list |-> fetch_page[timestamp_list[i]]]))

\* The table the DEFAULT list makes of the given rows (no two rows of equal
\* time are left when the sort runs, so the sort has one outcome).
DefaultTable(rows) ==
    LET deduped == DropDuplicates(rows)
        sorted == CHOOSE t \in SortValues(deduped) : TRUE
        missing == Sorted(MissingTimestamps(TimeColumn(sorted),
                                            TimeframeToTimestamp(timeframe)))
        fixed == IF missing = <<>> THEN sorted
                 ELSE CHOOSE t \in SortValues(sorted \o NewData(sorted, missing)) : TRUE
        dropped == DropLast(fixed)
    IN  [i \in DOMAIN dropped |-> [dropped[i] EXCEPT ![1] = TimestampToDatetime(@)]]

\* C30: for a fixed plan and a fetch function that returns the same NORMAL page
\* for a timestamp on every call, the table persisted with the DEFAULT list is
\* the same for every interleaving of the workers, pages sharing a boundary
\* timestamp included: whatever the order the pages landed in, the files hold
\* the table that the run landing them in plan order persists.
C30_PersistedTableOrderIndependent ==
    saver_pc = "done" => Concatenated(files) = DefaultTable(PlanOrderRows)

====
